---- MODULE Spec2Model ----
(***************************************************************************)
(* A model of decomp-toolkit's container codecs (src/util/elf.rs,          *)
(* src/util/rso.rs): process_elf (section pass, symbol pass with the       *)
(* boundary-recovery state machine, post-pass, relocation pass),           *)
(* write_elf and process_rso.                                              *)
(*                                                                         *)
(* process_elf reads its input through the `object` crate.  The input is   *)
(* modelled at the level of the ELF fields the crate's accessors look at   *)
(* (st_type, st_bind, st_other, st_shndx, sh_type, sh_flags, r_type ...);  *)
(* the accessors themselves are operators (SymbolKind, SymbolSection,      *)
(* is_global ...).  Strings are TLA+ strings, Option<T> is a sequence of   *)
(* length 0 or 1, a Vec is a sequence, an IndexMap is a sequence of        *)
(* (key, value) records in insertion order.                                *)
(***************************************************************************)
EXTENDS Integers, Sequences, FiniteSets, TLC

VARIABLES
    pc,               \* position in process_elf: "symbols", "relocs", "done" (Ok),
                      \* "error" (Err), "panic" (index out of bounds)
    error,            \* the message of the Err, "" if none
    obj_file,         \* the container read so far: [kind, sections, symbols]
    kind,             \* ObjKind: "Executable" | "Relocatable"
    obj_name,         \* String
    sections,         \* Vec<ObjSection>
    section_indexes,  \* Vec<Option<usize>>
    symbols,          \* Vec<ObjSymbol>
    symbol_indexes,   \* Vec<Option<usize>>
    section_starts,   \* IndexMap<String, Vec<(u64, String)>>
    name_to_index,    \* HashMap<String, usize>
    boundary_state,   \* BoundaryState
    link_order,       \* Vec<String>
    splits,           \* BTreeMap<u32, Vec<String>>
    section_idx,      \* the raw section the relocation loop has reached
    rso,              \* process_rso: the module read so far, None for process_elf
    writer,           \* write_elf: the Writer and the locals, None outside write_elf
    hash,             \* symbol_hash: the bytes left and the accumulator of the
                      \* fold, None outside symbol_hash
    reader            \* a TakeSeek over its inner reader, with the history of
                      \* its calls; None when there is none

vars == <<pc, error, obj_file, kind, obj_name, sections, section_indexes, symbols,
          symbol_indexes, section_starts, name_to_index, boundary_state,
          link_order, splits, section_idx, rso, writer, hash, reader>>

-----------------------------------------------------------------------------
(* Bounds of the model *)

\* longest symbol stream of the boundary-recovery specification
MaxSymbols == 4

\* longest symbol table of the decoder specification
MaxDecodeSymbols == 3

\* most relocation records of a container of the decoder specification
MaxRelocs == 1

\* most section-table entries of a module of the decoder specification
MaxRsoSections == 2

\* most export-table entries of a module of the decoder specification
MaxRsoExports == 1

-----------------------------------------------------------------------------
(* Rust's Option<T> *)

None == <<>>

Some(v) == <<v>>

is_some(o) == o # <<>>

unwrap(o) == o[1]

-----------------------------------------------------------------------------
(* str::ends_with, str::starts_with, str::contains *)

ends_with(s, pat) ==
    /\ Len(pat) <= Len(s)
    /\ SubSeq(s, Len(s) - Len(pat) + 1, Len(s)) = pat

starts_with(s, pat) ==
    /\ Len(pat) <= Len(s)
    /\ SubSeq(s, 1, Len(pat)) = pat

contains(s, pat) ==
    \E i \in 1..(Len(s) - Len(pat) + 1) : SubSeq(s, i, i + Len(pat) - 1) = pat

\* only the two whole-name tests
IsPrecompiledHeaderExact(file_name) ==
    \/ file_name = "Precompiled.cpp"
    \/ file_name = "stdafx.cpp"

\* "Try to exclude precompiled header symbols"
IsPrecompiledHeader(file_name) ==
    \/ file_name = "Precompiled.cpp"
    \/ file_name = "stdafx.cpp"
    \/ ends_with(file_name, ".h")
    \/ starts_with(file_name, "Pch.")
    \/ contains(file_name, "precompiled_")
    \/ contains(file_name, "Precompiled")
    \/ contains(file_name, ".pch")
    \/ contains(file_name, "_PCH.")

-----------------------------------------------------------------------------
(* ELF constants *)

SHN_UNDEF == 0

SHN_ABS == 65521

SHN_COMMON == 65522

SHN_LORESERVE == 65280

-----------------------------------------------------------------------------
(* The `object` crate's view of a section header *)

\* ObjectSection::kind
SectionKind(section) ==
    IF section.sh_type = "SHT_PROGBITS" THEN
        IF "SHF_ALLOC" \in section.sh_flags THEN
            IF "SHF_EXECINSTR" \in section.sh_flags THEN "Text"
            ELSE IF "SHF_WRITE" \in section.sh_flags THEN "Data"
            ELSE "ReadOnlyData"
        ELSE "Other"
    ELSE IF section.sh_type = "SHT_NOBITS" THEN "UninitializedData"
    ELSE "Metadata"

\* the match on section.kind() of the section pass
ObjSectionKindOf(section) ==
    CASE SectionKind(section) = "Text" -> Some("Code")
      [] SectionKind(section) = "Data" -> Some("Data")
      [] SectionKind(section) = "ReadOnlyData" -> Some("ReadOnlyData")
      [] SectionKind(section) = "UninitializedData" -> Some("Bss")
      [] OTHER -> None

\* Number of retained sections among the first n raw sections
RECURSIVE NumRetained(_, _)
NumRetained(raw, n) ==
    IF n = 0 THEN 0
    ELSE NumRetained(raw, n - 1)
         + (IF is_some(ObjSectionKindOf(raw[n])) THEN 1 ELSE 0)

\* section_indexes after the section pass; raw section i (0-based ELF index)
\* is raw[i + 1] and its entry is section_indexes[i + 1]
SectionIndexes(raw) ==
    [i \in 1..Len(raw) |->
        IF is_some(ObjSectionKindOf(raw[i]))
        THEN Some(NumRetained(raw, i - 1))
        ELSE None]

\* the ObjSection pushed for raw section i (1-based position)
ToObjSection(raw, i) ==
    [name |-> raw[i].sh_name,
     kind |-> unwrap(ObjSectionKindOf(raw[i])),
     address |-> raw[i].sh_addr,
     size |-> raw[i].sh_size,
     data |-> raw[i].data,
     align |-> raw[i].sh_addralign,
     index |-> NumRetained(raw, i - 1),
     elf_index |-> i - 1,
     relocations |-> <<>>]

RECURSIVE SectionPass(_, _)
\* sections after the section pass over the first n raw sections
SectionPass(raw, n) ==
    IF n = 0 THEN <<>>
    ELSE IF is_some(ObjSectionKindOf(raw[n]))
         THEN Append(SectionPass(raw, n - 1), ToObjSection(raw, n))
         ELSE SectionPass(raw, n - 1)

-----------------------------------------------------------------------------
(* The `object` crate's view of a symbol-table entry.  index is the        *)
(* 0-based position of the entry in the symbol table.                      *)

\* ObjectSymbol::kind
SymbolKind(symbol, index) ==
    CASE symbol.st_type = "STT_NOTYPE" /\ index = 0 -> "Null"
      [] symbol.st_type = "STT_NOTYPE" /\ index # 0 -> "Unknown"
      [] symbol.st_type \in {"STT_OBJECT", "STT_COMMON"} -> "Data"
      [] symbol.st_type = "STT_FUNC" -> "Text"
      [] symbol.st_type = "STT_SECTION" -> "Section"
      [] symbol.st_type = "STT_FILE" -> "File"
      [] symbol.st_type = "STT_TLS" -> "Tls"
      [] OTHER -> "Unknown"

\* ObjectSymbol::section: <<"Undefined">>, <<"Absolute">>, <<"None">>,
\* <<"Common">>, <<"Unknown">> or <<"Section", idx>>
SymbolSection(symbol) ==
    CASE symbol.st_shndx = SHN_UNDEF -> <<"Undefined">>
      [] symbol.st_shndx = SHN_ABS ->
            IF symbol.st_type = "STT_FILE" THEN <<"None">> ELSE <<"Absolute">>
      [] symbol.st_shndx = SHN_COMMON -> <<"Common">>
      [] symbol.st_shndx # SHN_UNDEF /\ symbol.st_shndx < SHN_LORESERVE ->
            <<"Section", symbol.st_shndx>>
      [] OTHER -> <<"Unknown">>

\* ObjectSymbol::section_index
section_index(symbol) ==
    IF SymbolSection(symbol)[1] = "Section"
    THEN Some(SymbolSection(symbol)[2])
    ELSE None

is_global(symbol) == symbol.st_bind # "STB_LOCAL"

is_local(symbol) == symbol.st_bind = "STB_LOCAL"

is_common(symbol) == symbol.st_shndx = SHN_COMMON

is_weak(symbol) == symbol.st_bind = "STB_WEAK"

\* ObjectSymbol::scope
SymbolScope(symbol) ==
    IF symbol.st_shndx = SHN_UNDEF THEN "Unknown"
    ELSE IF symbol.st_bind = "STB_LOCAL" THEN "Compilation"
    ELSE IF symbol.st_bind \in {"STB_GLOBAL", "STB_WEAK"} THEN
        IF symbol.st_other = "STV_HIDDEN" THEN "Linkage" ELSE "Dynamic"
    ELSE "Unknown"

\* Object::section_by_index succeeds (idx is a 0-based ELF section index)
SectionExists(file, idx) == idx + 1 \in 1..Len(file.sections)

\* Object::section_by_index(idx).name()
SectionName(file, idx) == file.sections[idx + 1].sh_name

-----------------------------------------------------------------------------
(* IndexMap<String, Vec<(u64, String)>> as a sequence of [key, value]      *)

contains_key(map, key) == \E i \in 1..Len(map) : map[i].key = key

get(map, key) == map[CHOOSE i \in 1..Len(map) : map[i].key = key].value

\* Entry::Vacant(e).insert(value)
insert(map, key, value) == Append(map, [key |-> key, value |-> value])

\* *map.get_mut(key) = value
set_value(map, key, value) ==
    [i \in 1..Len(map) |->
        IF map[i].key = key THEN [key |-> key, value |-> value] ELSE map[i]]

keys(map) == [i \in 1..Len(map) |-> map[i].key]

-----------------------------------------------------------------------------
(* enum BoundaryState *)

LookForFile(queue) ==
    [tag |-> "LookForFile", queue |-> queue, file_name |-> ""]

LookForSections(file_name) ==
    [tag |-> "LookForSections", queue |-> <<>>, file_name |-> file_name]

FilesEnded ==
    [tag |-> "FilesEnded", queue |-> <<>>, file_name |-> ""]

-----------------------------------------------------------------------------
(* The symbol pass of process_elf.  st is the record of the locals the     *)
(* loop body reads and writes:                                             *)
(*   [pc, error, obj_name, symbols, symbol_indexes, section_starts,        *)
(*    name_to_index, boundary_state]                                       *)

\* bail!(message) / `?` on an Err
Bail(st, message) == [st EXCEPT !.pc = "error", !.error = message]

\* RegisterFile with the per-name counter never advanced past 1
RegisterFileSameSuffix(st, file_name) ==
    IF ~contains_key(st.section_starts, file_name)
    THEN [ok |-> TRUE, file_name |-> file_name,
          section_starts |-> insert(st.section_starts, file_name, <<>>),
          name_to_index |-> st.name_to_index]
    ELSE LET new_name == file_name \o "_" \o ToString(1) IN
         IF contains_key(st.section_starts, new_name)
         THEN [ok |-> FALSE, file_name |-> new_name,
               section_starts |-> st.section_starts,
               name_to_index |-> st.name_to_index]
         ELSE [ok |-> TRUE, file_name |-> new_name,
               section_starts |-> insert(st.section_starts, new_name, <<>>),
               name_to_index |-> st.name_to_index]

\* the `let sections = match section_starts.entry(file_name.clone())` block:
\* the name the file is registered under, and the maps afterwards
RegisterFile(st, file_name) ==
    IF ~contains_key(st.section_starts, file_name)
    THEN [ok |-> TRUE, file_name |-> file_name,
          section_starts |-> insert(st.section_starts, file_name, <<>>),
          name_to_index |-> st.name_to_index]
    ELSE LET index == (IF file_name \in DOMAIN st.name_to_index
                       THEN st.name_to_index[file_name] ELSE 0) + 1
             new_name == file_name \o "_" \o ToString(index)
             counted == [n \in DOMAIN st.name_to_index \cup {file_name} |->
                            IF n = file_name THEN index
                            ELSE st.name_to_index[n]]
         IN IF contains_key(st.section_starts, new_name)
            THEN [ok |-> FALSE, file_name |-> new_name,
                  section_starts |-> st.section_starts,
                  name_to_index |-> counted]
            ELSE [ok |-> TRUE, file_name |-> new_name,
                  section_starts |-> insert(st.section_starts, new_name, <<>>),
                  name_to_index |-> counted]

\* BoundaryOnFile with the pending queue dropped instead of drained
BoundaryOnFileNoDrain(st, file_name) ==
    IF st.boundary_state.tag = "FilesEnded" THEN st
    ELSE [st EXCEPT !.boundary_state = LookForSections(file_name)]

\* BoundaryOnFile going on to the sections of the file after a drain
BoundaryOnFileDrainAndAdvance(st, file_name) ==
    CASE st.boundary_state.tag = "LookForFile" ->
            [st EXCEPT
                !.section_starts =
                    set_value(@, file_name,
                              get(@, file_name) \o st.boundary_state.queue),
                !.boundary_state = LookForSections(file_name)]
      [] st.boundary_state.tag = "LookForSections" ->
            [st EXCEPT !.boundary_state = LookForSections(file_name)]
      [] st.boundary_state.tag = "FilesEnded" -> st

\* `match &mut boundary_state` of the File arm; file_name is registered
BoundaryOnFile(st, file_name) ==
    CASE st.boundary_state.tag = "LookForFile" ->
            IF st.boundary_state.queue = <<>>
            THEN [st EXCEPT !.boundary_state = LookForSections(file_name)]
            ELSE [st EXCEPT
                    !.section_starts =
                        set_value(@, file_name,
                                  get(@, file_name) \o st.boundary_state.queue),
                    !.boundary_state = LookForFile(<<>>)]
      [] st.boundary_state.tag = "LookForSections" ->
            [st EXCEPT !.boundary_state = LookForSections(file_name)]
      [] st.boundary_state.tag = "FilesEnded" -> st

\* SymbolKind::File arm; "skip" says the arm ended in `continue`
FileSymbol(st, knd, symbol) ==
    LET file_name == symbol.name IN
    IF IsPrecompiledHeader(file_name)
    THEN [skip |-> TRUE,
          st |-> [st EXCEPT !.symbol_indexes = Append(@, None)]]
    ELSE LET named == IF knd = "Relocatable"
                      THEN [st EXCEPT !.obj_name = file_name] ELSE st
             reg == RegisterFile(named, file_name)
         IN IF ~reg.ok
            THEN [skip |-> FALSE, st |-> Bail(named, "Duplicate filename")]
            ELSE [skip |-> FALSE,
                  st |-> BoundaryOnFile(
                            [named EXCEPT
                                !.section_starts = reg.section_starts,
                                !.name_to_index = reg.name_to_index],
                            reg.file_name)]

\* SectionSymbol without the `section_indexes[..].is_some()` test
SectionSymbolNoFilter(st, file, si, symbol) ==
    IF ~is_some(section_index(symbol))
    THEN Bail(st, "Section symbol without section")
    ELSE LET idx == unwrap(section_index(symbol)) IN
    IF ~SectionExists(file, idx) THEN Bail(st, "Invalid ELF section index")
    ELSE LET section_name == SectionName(file, idx) IN
    CASE st.boundary_state.tag = "LookForFile" ->
            [st EXCEPT !.boundary_state =
                LookForFile(Append(@.queue, <<symbol.st_value, section_name>>))]
      [] st.boundary_state.tag = "LookForSections" ->
            [st EXCEPT !.section_starts =
                set_value(@, st.boundary_state.file_name,
                    Append(get(@, st.boundary_state.file_name),
                           <<symbol.st_value, section_name>>))]
      [] st.boundary_state.tag = "FilesEnded" -> st

\* SymbolKind::Section arm
SectionSymbol(st, file, si, symbol) ==
    IF ~is_some(section_index(symbol))
    THEN Bail(st, "Section symbol without section")
    ELSE LET idx == unwrap(section_index(symbol)) IN
    IF ~SectionExists(file, idx) THEN Bail(st, "Invalid ELF section index")
    ELSE LET section_name == SectionName(file, idx) IN
    CASE st.boundary_state.tag = "LookForFile" ->
            [st EXCEPT !.boundary_state =
                LookForFile(Append(@.queue, <<symbol.st_value, section_name>>))]
      [] st.boundary_state.tag = "LookForSections" ->
            IF is_some(si[idx + 1])
            THEN [st EXCEPT !.section_starts =
                    set_value(@, st.boundary_state.file_name,
                        Append(get(@, st.boundary_state.file_name),
                               <<symbol.st_value, section_name>>))]
            ELSE st
      [] st.boundary_state.tag = "FilesEnded" -> st

\* the fallback appending whenever no placeholder entry is found
SectionFallbackAlwaysAppend(list, address, section_name) ==
    IF \E i \in 1..Len(list) : list[i][1] = 0 /\ list[i][2] = section_name
    THEN LET first == CHOOSE i \in 1..Len(list) :
                        /\ list[i][1] = 0 /\ list[i][2] = section_name
                        /\ \A j \in 1..(i - 1) :
                              ~(list[j][1] = 0 /\ list[j][2] = section_name)
         IN [list EXCEPT ![first] = <<address, section_name>>]
    ELSE Append(list, <<address, section_name>>)

\* the fallback of the LookForSections arm for a symbol of section
\* section_name: the file's list afterwards
SectionFallback(list, address, section_name) ==
    IF \E i \in 1..Len(list) : list[i][1] = 0 /\ list[i][2] = section_name
    THEN LET first == CHOOSE i \in 1..Len(list) :
                        /\ list[i][1] = 0 /\ list[i][2] = section_name
                        /\ \A j \in 1..(i - 1) :
                              ~(list[j][1] = 0 /\ list[j][2] = section_name)
         IN [list EXCEPT ![first] = <<address, section_name>>]
    ELSE IF ~\E i \in 1..Len(list) : list[i][2] = section_name
    THEN Append(list, <<address, section_name>>)
    ELSE list

\* the arm with an absolute symbol ending the files only once a file is
\* current
OtherSymbolEndsAfterFile(st, file, si, symbol) ==
    LET sec == SymbolSection(symbol) IN
    CASE sec[1] = "Absolute" ->
            IF st.boundary_state.tag = "LookForFile" THEN st
            ELSE [st EXCEPT !.boundary_state = FilesEnded]
      [] sec[1] = "Section" ->
            IF st.boundary_state.tag = "LookForSections"
            THEN IF sec[2] + 1 > Len(si)
                 THEN [st EXCEPT !.pc = "panic"]
                 ELSE IF is_some(si[sec[2] + 1])
                 THEN [st EXCEPT !.section_starts =
                        set_value(@, st.boundary_state.file_name,
                            SectionFallback(
                                get(@, st.boundary_state.file_name),
                                symbol.st_value, SectionName(file, sec[2])))]
                 ELSE st
            ELSE st
      [] sec[1] = "Undefined" -> st
      [] OTHER -> Bail(st, "Unsupported symbol section type")

\* the `_ => match symbol.section()` arm
OtherSymbol(st, file, si, symbol) ==
    LET sec == SymbolSection(symbol) IN
    CASE sec[1] = "Absolute" -> [st EXCEPT !.boundary_state = FilesEnded]
      [] sec[1] = "Section" ->
            IF st.boundary_state.tag = "LookForSections"
            THEN IF sec[2] + 1 > Len(si)
                 THEN [st EXCEPT !.pc = "panic"]
                 ELSE IF is_some(si[sec[2] + 1])
                 THEN [st EXCEPT !.section_starts =
                        set_value(@, st.boundary_state.file_name,
                            SectionFallback(
                                get(@, st.boundary_state.file_name),
                                symbol.st_value, SectionName(file, sec[2])))]
                 ELSE st
            ELSE st
      [] sec[1] = "Undefined" -> st
      [] OTHER -> Bail(st, "Unsupported symbol section type")

-----------------------------------------------------------------------------
(* to_obj_symbol and the "Generate symbols" step *)

\* the ObjSymbolFlagSet built from the accessors
SymbolFlags(symbol) ==
    (IF is_global(symbol) THEN {"Global"} ELSE {})
    \cup (IF is_local(symbol) THEN {"Local"} ELSE {})
    \cup (IF is_common(symbol) THEN {"Common"} ELSE {})
    \cup (IF is_weak(symbol) THEN {"Weak"} ELSE {})
    \cup (IF SymbolScope(symbol) = "Linkage" THEN {"Hidden"} ELSE {})

\* the name to_obj_symbol gives the symbol; None when it bails
\* ("Section symbol without section")
ObjSymbolName(file, symbol, index) ==
    IF SymbolKind(symbol, index) = "Section"
    THEN IF is_some(section_index(symbol))
         THEN Some(SectionName(file, unwrap(section_index(symbol))))
         ELSE None
    ELSE Some(symbol.name)

\* the match on symbol.kind() that ends to_obj_symbol; None when it bails
ObjSymbolKindOf(symbol, index) ==
    CASE SymbolKind(symbol, index) = "Text" -> Some("Function")
      [] SymbolKind(symbol, index) = "Data" -> Some("Object")
      [] SymbolKind(symbol, index) = "Unknown" -> Some("Unknown")
      [] SymbolKind(symbol, index) = "Section" -> Some("Section")
      [] OTHER -> None

\* the message of the Err to_obj_symbol returns, "" when it returns Ok
ToObjSymbolError(file, symbol, index) ==
    IF is_some(section_index(symbol))
       /\ ~SectionExists(file, unwrap(section_index(symbol)))
    THEN "Invalid ELF section index"
    ELSE IF ~is_some(ObjSymbolName(file, symbol, index))
    THEN "Section symbol without section"
    ELSE IF unwrap(ObjSymbolName(file, symbol, index)) = ""
    THEN "Empty symbol name"
    ELSE IF ~is_some(ObjSymbolKindOf(symbol, index))
    THEN "Unsupported symbol kind"
    ELSE ""

\* to_obj_symbol: Some(ObjSymbol), or None for an Err
\* the ELF index of the section taken for its normalized index
SectionIdxRaw(si, idx) == Some(idx)

\* section_indexes[section.index().0]
SectionIdx(si, idx) == si[idx + 1]

to_obj_symbol(file, symbol, index, si) ==
    IF ToObjSymbolError(file, symbol, index) # "" THEN None
    ELSE Some([name |-> unwrap(ObjSymbolName(file, symbol, index)),
               address |-> symbol.st_value,
               section |-> IF is_some(section_index(symbol))
                           THEN SectionIdx(si, unwrap(section_index(symbol)))
                           ELSE None,
               size |-> symbol.st_size,
               flags |-> SymbolFlags(symbol),
               kind |-> unwrap(ObjSymbolKindOf(symbol, index))])

\* "Generate symbols": the tail of the loop body
GenerateSymbol(st, file, si, symbol) ==
    LET index == Len(st.symbol_indexes) IN
    IF SymbolKind(symbol, index) \in {"Null", "File"}
    THEN [st EXCEPT !.symbol_indexes = Append(@, None)]
    ELSE IF is_some(section_index(symbol))
            /\ unwrap(section_index(symbol)) + 1 > Len(si)
    THEN [st EXCEPT !.pc = "panic"]
    ELSE IF is_some(section_index(symbol))
            /\ si[unwrap(section_index(symbol)) + 1] = None
    THEN [st EXCEPT !.symbol_indexes = Append(@, None)]
    ELSE IF ~is_some(to_obj_symbol(file, symbol, index, si))
    THEN Bail(st, ToObjSymbolError(file, symbol, index))
    ELSE [st EXCEPT
            !.symbol_indexes = Append(@, Some(Len(st.symbols))),
            !.symbols = Append(@, unwrap(to_obj_symbol(file, symbol, index, si)))]

\* one iteration of `for symbol in obj_file.symbols()`
ProcessSymbol(st, file, knd, si, symbol) ==
    LET index == Len(st.symbol_indexes)
        k == SymbolKind(symbol, index)
    IN IF k = "File"
       THEN LET r == FileSymbol(st, knd, symbol) IN
            IF r.skip \/ r.st.pc # "symbols" THEN r.st
            ELSE GenerateSymbol(r.st, file, si, symbol)
       ELSE LET after == IF k = "Section"
                         THEN SectionSymbol(st, file, si, symbol)
                         ELSE OtherSymbol(st, file, si, symbol)
            IN IF after.pc # "symbols" THEN after
               ELSE GenerateSymbol(after, file, si, symbol)

-----------------------------------------------------------------------------
(* Post-pass: link_order and splits (Executable only) *)

\* NestedVec::nested_push on a BTreeMap<u32, Vec<String>>, the map being a
\* function from its keys
nested_push(map, address, file_name) ==
    [a \in DOMAIN map \cup {address} |->
        IF a = address
        THEN (IF a \in DOMAIN map THEN Append(map[a], file_name)
              ELSE <<file_name>>)
        ELSE map[a]]

RECURSIVE PushSections(_, _, _)
\* the inner loop `for (address, _) in sections`
PushSections(map, file_name, list) ==
    IF list = <<>> THEN map
    ELSE PushSections(nested_push(map, Head(list)[1], file_name),
                      file_name, Tail(list))

RECURSIVE BuildSplitsReversed(_, _)
\* the files taken from the last one to the first one
BuildSplitsReversed(starts, n) ==
    IF n = 0 THEN <<>>
    ELSE PushSections(BuildSplitsReversed(starts, n - 1),
                      starts[Len(starts) + 1 - n].key,
                      starts[Len(starts) + 1 - n].value)

RECURSIVE BuildSplits(_, _)
\* `for (file_name, sections) in section_starts`, over the first n files
BuildSplits(starts, n) ==
    IF n = 0 THEN <<>>
    ELSE PushSections(BuildSplits(starts, n - 1), starts[n].key, starts[n].value)

\* LinkOrder with the names in reverse order of creation
LinkOrderReversed(knd, starts) ==
    IF knd = "Executable"
    THEN [i \in 1..Len(starts) |-> starts[Len(starts) + 1 - i].key]
    ELSE <<>>

\* link_order after the post-pass
LinkOrder(knd, starts) == IF knd = "Executable" THEN keys(starts) ELSE <<>>

\* the splits loop run without looking at the kind
SplitsAnyKind(knd, starts) == BuildSplits(starts, Len(starts))

\* splits after the post-pass
Splits(knd, starts) ==
    IF knd = "Executable" THEN BuildSplits(starts, Len(starts)) ELSE <<>>

-----------------------------------------------------------------------------
(* to_obj_reloc.  A relocation record is                                   *)
(*   [r_offset, r_type, r_sym, r_addend, implicit]                         *)
(* implicit saying that the record has no addend field (a REL section),    *)
(* and r_addend being an I64.                                              *)

\* the match on reloc.kind(); None when it bails
ObjRelocKindOf(reloc) ==
    CASE reloc.r_type = "R_PPC_ADDR32" -> Some("Absolute")
      [] reloc.r_type = "R_PPC_ADDR16_LO" -> Some("PpcAddr16Lo")
      [] reloc.r_type = "R_PPC_ADDR16_HI" -> Some("PpcAddr16Hi")
      [] reloc.r_type = "R_PPC_ADDR16_HA" -> Some("PpcAddr16Ha")
      [] reloc.r_type = "R_PPC_REL24" -> Some("PpcRel24")
      [] reloc.r_type = "R_PPC_REL14" -> Some("PpcRel14")
      [] reloc.r_type = "R_PPC_EMB_SDA21" -> Some("PpcEmbSda21")
      [] OTHER -> None

\* An i64 addend is kept as [hi, lo], standing for hi * 2^16 + lo with lo
\* in 0..2^16-1, so that every 32-bit word has a representation.
I64(v) == [hi |-> v \div 65536, lo |-> v % 65536]

\* Relocation::addend
Addend(reloc) == IF reloc.implicit THEN I64(0) ELSE reloc.r_addend

\* the word of section_data[address..address + 4] read as a signed i32
ImplicitAddendSigned(section_data, address) ==
    [hi |-> section_data[address + 1] * 256 + section_data[address + 2]
              - (IF section_data[address + 1] >= 128 THEN 65536 ELSE 0),
     lo |-> section_data[address + 3] * 256 + section_data[address + 4]]

\* u32::from_be_bytes(section_data[address..address + 4]) as i64
ImplicitAddend(section_data, address) ==
    [hi |-> section_data[address + 1] * 256 + section_data[address + 2],
     lo |-> section_data[address + 3] * 256 + section_data[address + 4]]

\* the address kept as the record gives it
RoundDownNone(address) == address

\* address & !3
RoundDown(address) == address - (address % 4)

\* the `let addend = match symbol.kind()` block for a Section symbol:
\* [pc, error, addend]
SectionAddend(section_data, address, reloc, reloc_kind) ==
    IF reloc.implicit
    THEN IF address + 4 > Len(section_data)
         THEN [pc |-> "panic", error |-> "", addend |-> I64(0)]
         ELSE IF reloc_kind # "Absolute"
         THEN [pc |-> "error", error |-> "Unsupported implicit relocation type",
               addend |-> I64(0)]
         ELSE IF ImplicitAddend(section_data, address).hi < 0
         THEN [pc |-> "error", error |-> "Negative addend in section reloc",
               addend |-> I64(0)]
         ELSE [pc |-> "ok", error |-> "",
               addend |-> ImplicitAddend(section_data, address)]
    ELSE IF Addend(reloc).hi >= 0
         THEN [pc |-> "ok", error |-> "", addend |-> Addend(reloc)]
         ELSE [pc |-> "error", error |-> "Negative addend in section reloc",
               addend |-> I64(0)]

\* the raw index of the target taken for its normalized index
TargetSymbolRaw(sym_idx, r_sym) == Some(r_sym)

\* symbol_indexes[symbol.index().0]
TargetSymbol(sym_idx, r_sym) == sym_idx[r_sym + 1]

\* to_obj_reloc: [pc |-> "ok", value |-> ObjReloc], or pc "error" / "panic".
\* A record naming symbol 0 ends in an Err whether the crate reports it as a
\* target that is not a symbol or as the null symbol, which is stripped.
to_obj_reloc(file, sym_idx, section_data, address, reloc) ==
    LET fail(m) == [pc |-> "error", error |-> m, value |-> <<>>] IN
    IF ~is_some(ObjRelocKindOf(reloc))
    THEN fail("Unhandled PPC relocation type")
    ELSE IF reloc.r_sym + 1 > Len(file.symbols)
    THEN fail("Failed to locate relocation target symbol")
    ELSE IF ~is_some(TargetSymbol(sym_idx, reloc.r_sym))
    THEN fail("Relocation against stripped symbol")
    ELSE LET symbol == file.symbols[reloc.r_sym + 1]
             k == SymbolKind(symbol, reloc.r_sym)
             reloc_kind == unwrap(ObjRelocKindOf(reloc))
             a == IF k \in {"Text", "Data", "Unknown"}
                  THEN [pc |-> "ok", error |-> "", addend |-> Addend(reloc)]
                  ELSE IF k = "Section"
                  THEN SectionAddend(section_data, address, reloc, reloc_kind)
                  ELSE [pc |-> "error", addend |-> I64(0),
                        error |-> "Unhandled relocation symbol type"]
         IN IF a.pc # "ok"
            THEN [pc |-> a.pc, error |-> a.error, value |-> <<>>]
            ELSE [pc |-> "ok", error |-> "",
                  value |-> [kind |-> reloc_kind,
                             address |-> RoundDown(address),
                             target_symbol |->
                                 unwrap(TargetSymbol(sym_idx, reloc.r_sym)),
                             addend |-> a.addend]]

\* the body of the relocation loop on one record of the retained section at
\* position idx of sections; st is [pc, error, sections]
PushReloc(st, file, sym_idx, idx, reloc) ==
    LET r == to_obj_reloc(file, sym_idx, st.sections[idx].data, reloc.r_offset,
                          reloc)
    IN IF r.pc = "ok"
       THEN [st EXCEPT !.sections[idx].relocations = Append(@, r.value)]
       ELSE [st EXCEPT !.pc = r.pc, !.error = r.error]

\* the relocation records of the first n raw sections, in the order of the
\* loop, each with the position s of its raw section
RECURSIVE RelocList(_, _)
RelocList(raw, n) ==
    IF n = 0 THEN <<>>
    ELSE RelocList(raw, n - 1)
         \o [j \in 1..Len(raw[n].relocs) |-> [s |-> n, reloc |-> raw[n].relocs[j]]]

\* the relocation loop over list (it stops at the first Err or panic, and
\* skips the sections that were not retained)
RECURSIVE RunRelocs(_, _, _, _, _)
RunRelocs(file, si, sym_idx, secs, list) ==
    IF list = <<>> THEN [pc |-> "relocs", error |-> "", sections |-> secs]
    ELSE LET st == RunRelocs(file, si, sym_idx, secs,
                             SubSeq(list, 1, Len(list) - 1))
             last == list[Len(list)]
         IN IF st.pc # "relocs" \/ ~is_some(si[last.s]) THEN st
            ELSE PushReloc(st, file, sym_idx, unwrap(si[last.s]) + 1, last.reloc)

-----------------------------------------------------------------------------
(* The containers the model decodes *)

\* section table: null, .text (Code), .comment (dropped), .data (Data)
ElfSections ==
    << [sh_name |-> "", sh_type |-> "SHT_NULL", sh_flags |-> {},
        sh_addr |-> 0, sh_size |-> 0, sh_addralign |-> 0, sh_info |-> 0,
        data |-> <<>>, relocs |-> <<>>],
       [sh_name |-> ".text", sh_type |-> "SHT_PROGBITS",
        sh_flags |-> {"SHF_ALLOC", "SHF_EXECINSTR"},
        sh_addr |-> 16, sh_size |-> 8, sh_addralign |-> 4, sh_info |-> 0,
        data |-> <<0, 0, 0, 8, 255, 255, 255, 252>>, relocs |-> <<>>],
       [sh_name |-> ".comment", sh_type |-> "SHT_PROGBITS", sh_flags |-> {},
        sh_addr |-> 0, sh_size |-> 2, sh_addralign |-> 1, sh_info |-> 0,
        data |-> <<71, 67>>, relocs |-> <<>>],
       [sh_name |-> ".data", sh_type |-> "SHT_PROGBITS",
        sh_flags |-> {"SHF_ALLOC", "SHF_WRITE"},
        sh_addr |-> 32, sh_size |-> 4, sh_addralign |-> 4, sh_info |-> 0,
        data |-> <<0, 0, 0, 16>>, relocs |-> <<>>] >>

Sym(name, type, bind, other, shndx, value, size) ==
    [name |-> name, st_type |-> type, st_bind |-> bind, st_other |-> other,
     st_shndx |-> shndx, st_value |-> value, st_size |-> size]

FileSym(name) == Sym(name, "STT_FILE", "STB_LOCAL", "STV_DEFAULT", SHN_ABS, 0, 0)

SectionSym(shndx, value) ==
    Sym("", "STT_SECTION", "STB_LOCAL", "STV_DEFAULT", shndx, value, 0)

\* the symbol streams of the boundary-recovery specification are drawn from:
\* file symbols (one a precompiled header, one named like a renamed
\* duplicate), section symbols of a retained and of a dropped section (with
\* and without the placeholder address 0), defined symbols in a retained
\* and in a dropped section, and a linker-generated absolute symbol
BoundarySymbols ==
    { FileSym(n) : n \in {"a.c", "a.c_1", "x.h"} }
    \cup { SectionSym(1, 0), SectionSym(1, 16), SectionSym(2, 0), SectionSym(3, 32) }
    \cup { Sym("f", "STT_FUNC", "STB_GLOBAL", "STV_DEFAULT", 1, 20, 4),
           Sym("c", "STT_OBJECT", "STB_LOCAL", "STV_DEFAULT", 2, 1, 1),
           Sym("_end", "STT_NOTYPE", "STB_GLOBAL", "STV_DEFAULT", SHN_ABS, 64, 0) }

\* the symbol at index 0 of a symbol table
NullSym == Sym("", "STT_NOTYPE", "STB_LOCAL", "STV_DEFAULT", SHN_UNDEF, 0, 0)

\* the symbol tables of the decoder specification start with the null symbol
\* and go on with symbols drawn from: file symbols (one a precompiled
\* header), section symbols of a retained and of a dropped section, a
\* function, an undefined external, a hidden absolute symbol at address 0, a
\* weak hidden object and a local untyped symbol in a retained section, and
\* symbols the decoder rejects (a second null entry, a thread-local, a
\* common, and one whose section index is past the section table)
DecodeSymbols ==
    { FileSym("a.c"), FileSym("x.h"), SectionSym(1, 0), SectionSym(2, 0),
      Sym("f", "STT_FUNC", "STB_GLOBAL", "STV_DEFAULT", 1, 4, 4),
      Sym("e", "STT_NOTYPE", "STB_GLOBAL", "STV_DEFAULT", SHN_UNDEF, 0, 0),
      Sym("h", "STT_OBJECT", "STB_GLOBAL", "STV_HIDDEN", SHN_ABS, 0, 0),
      Sym("w", "STT_OBJECT", "STB_WEAK", "STV_HIDDEN", 3, 0, 4),
      Sym("l", "STT_NOTYPE", "STB_LOCAL", "STV_DEFAULT", 3, 2, 0),
      NullSym,
      Sym("t", "STT_TLS", "STB_GLOBAL", "STV_DEFAULT", 3, 0, 4),
      Sym("m", "STT_OBJECT", "STB_GLOBAL", "STV_DEFAULT", SHN_COMMON, 4, 4),
      Sym("o", "STT_FUNC", "STB_GLOBAL", "STV_DEFAULT", 9, 0, 4) }

Rel(offset, type, sym, addend, implicit) ==
    [r_offset |-> offset, r_type |-> type, r_sym |-> sym,
     r_addend |-> I64(addend), implicit |-> implicit]

\* the relocation types of the decoder specification: the seven the decoder
\* knows and one it does not
RelocTypes ==
    {"R_PPC_ADDR32", "R_PPC_ADDR16_LO", "R_PPC_ADDR16_HI", "R_PPC_ADDR16_HA",
     "R_PPC_REL24", "R_PPC_REL14", "R_PPC_EMB_SDA21", "R_PPC_UADDR32"}

\* the relocation records of the decoder specification, against a table of
\* n symbols: every type against the last symbol, with an explicit addend at
\* an unaligned offset; absolute records with a negative explicit addend
\* against the null symbol, the last symbol and a symbol past the table;
\* and, for an absolute and a half-word type, records against the last
\* symbol with an implicit addend read at a word with the top bit clear, at
\* one with the top bit set, or past the data
DecodeRelocs(n) ==
    { Rel(2, t, y, 4, FALSE) : t \in RelocTypes, y \in {n - 1} \cap Nat }
    \cup { Rel(5, "R_PPC_ADDR32", y, 0 - 4, FALSE) : y \in {0, n - 1, n} \cap Nat }
    \cup { Rel(o, t, y, 0, TRUE) :
              o \in {0, 4, 6}, t \in {"R_PPC_ADDR32", "R_PPC_ADDR16_HA"},
              y \in {n - 1} \cap Nat }

-----------------------------------------------------------------------------
(* write_elf, as the container process_elf reads back: the section table   *)
(* (each section with the records of its relocation section) and the       *)
(* symbol table.  obj is [kind, name, sections, symbols].                  *)

\* symbol.section.and_then(|idx| out_sections.get(idx)).map(|s| s.index):
\* the null section comes first, then the sections in order
OutSectionIndex(obj, symbol) ==
    IF is_some(symbol.section) /\ unwrap(symbol.section) < Len(obj.sections)
    THEN Some(unwrap(symbol.section) + 1)
    ELSE None

StType(symbol) ==
    CASE symbol.kind = "Unknown" -> "STT_NOTYPE"
      [] symbol.kind = "Function" -> "STT_FUNC"
      [] symbol.kind = "Object" ->
            IF "Common" \in symbol.flags THEN "STT_COMMON" ELSE "STT_OBJECT"
      [] symbol.kind = "Section" -> "STT_SECTION"

\* the Local attribute looked at before the Weak one
StBindLocalFirst(symbol) ==
    IF "Local" \in symbol.flags THEN "STB_LOCAL"
    ELSE IF "Weak" \in symbol.flags THEN "STB_WEAK"
    ELSE "STB_GLOBAL"

StBind(symbol) ==
    IF "Weak" \in symbol.flags THEN "STB_WEAK"
    ELSE IF "Local" \in symbol.flags THEN "STB_LOCAL"
    ELSE "STB_GLOBAL"

StOther(symbol) ==
    IF "Hidden" \in symbol.flags THEN "STV_HIDDEN" ELSE "STV_DEFAULT"

\* the st_shndx written: the writer puts the reserved index of sym.section
\* when there is one, and the st_shndx field otherwise
StShndx(obj, symbol) ==
    IF is_some(OutSectionIndex(obj, symbol))
    THEN unwrap(OutSectionIndex(obj, symbol))
    ELSE IF symbol.address # 0 THEN SHN_ABS ELSE SHN_UNDEF

OutSymbol(obj, symbol) ==
    Sym(symbol.name, StType(symbol), StBind(symbol), StOther(symbol),
        StShndx(obj, symbol), symbol.address, symbol.size)

\* the file symbol written when obj.name is not empty
OutFileSymbol(obj) ==
    Sym(obj.name, "STT_FILE", "STB_GLOBAL", "STV_DEFAULT", SHN_ABS, 0, 0)

\* no room is left for the file symbol
SymbolOffsetNone(obj) == 0

symbol_offset(obj) == IF obj.name # "" THEN 1 ELSE 0

\* the symbol table: write_null_symbol, then out_symbols; nothing is
\* written when no symbol index was reserved
OutSymbols(obj) ==
    IF obj.name = "" /\ obj.symbols = <<>> THEN <<>>
    ELSE <<NullSym>>
         \o (IF obj.name # "" THEN <<OutFileSymbol(obj)>> ELSE <<>>)
         \o [i \in 1..Len(obj.symbols) |-> OutSymbol(obj, obj.symbols[i])]

\* num_local: writer.symbol_count() when the last local symbol was reserved
NumLocal(obj) ==
    LET locals == {i \in 1..Len(obj.symbols) :
                      StBind(obj.symbols[i]) = "STB_LOCAL"}
    IN IF locals = {} THEN 0
       ELSE 1 + symbol_offset(obj)
            + CHOOSE i \in locals : \A j \in locals : j <= i

\* r_addend as the 32-bit writer stores it: the low 32 bits, signed
ToI32(a) ==
    [hi |-> IF a.hi % 65536 >= 32768 THEN (a.hi % 65536) - 65536
            ELSE a.hi % 65536,
     lo |-> a.lo]

\* the address kept as it is, and the aligned type for Absolute
OutRelocTypeAsStored(reloc) ==
    <<reloc.address,
      CASE reloc.kind = "Absolute" -> "R_PPC_ADDR32"
        [] reloc.kind = "PpcAddr16Hi" -> "R_PPC_ADDR16_HI"
        [] reloc.kind = "PpcAddr16Ha" -> "R_PPC_ADDR16_HA"
        [] reloc.kind = "PpcAddr16Lo" -> "R_PPC_ADDR16_LO"
        [] reloc.kind = "PpcRel24" -> "R_PPC_REL24"
        [] reloc.kind = "PpcRel14" -> "R_PPC_REL14"
        [] reloc.kind = "PpcEmbSda21" -> "R_PPC_EMB_SDA21">>

\* the match on reloc.kind of the relocation emission: <<r_offset, r_type>>
OutRelocType(reloc) ==
    CASE reloc.kind = "Absolute" ->
            <<reloc.address,
              IF reloc.address % 4 = 0 THEN "R_PPC_ADDR32" ELSE "R_PPC_UADDR32">>
      [] reloc.kind = "PpcAddr16Hi" ->
            <<RoundDown(reloc.address) + 2, "R_PPC_ADDR16_HI">>
      [] reloc.kind = "PpcAddr16Ha" ->
            <<RoundDown(reloc.address) + 2, "R_PPC_ADDR16_HA">>
      [] reloc.kind = "PpcAddr16Lo" ->
            <<RoundDown(reloc.address) + 2, "R_PPC_ADDR16_LO">>
      [] reloc.kind = "PpcRel24" -> <<RoundDown(reloc.address), "R_PPC_REL24">>
      [] reloc.kind = "PpcRel14" -> <<RoundDown(reloc.address), "R_PPC_REL14">>
      [] reloc.kind = "PpcEmbSda21" ->
            <<RoundDown(reloc.address) + 2, "R_PPC_EMB_SDA21">>

\* writer.write_relocation(true, &Rel { .. })
OutReloc(obj, reloc) ==
    [r_offset |-> OutRelocType(reloc)[1],
     r_type |-> OutRelocType(reloc)[2],
     r_sym |-> reloc.target_symbol + symbol_offset(obj) + 1,
     r_addend |-> ToI32(reloc.addend),
     implicit |-> FALSE]

\* the section header of a section, with the data written for it and the
\* records of its relocation section
OutSection(obj, section) ==
    [sh_name |-> section.name,
     sh_type |-> IF section.kind = "Bss" THEN "SHT_NOBITS" ELSE "SHT_PROGBITS",
     sh_flags |-> CASE section.kind = "Code" -> {"SHF_ALLOC", "SHF_EXECINSTR"}
                    [] section.kind \in {"Data", "Bss"} -> {"SHF_ALLOC", "SHF_WRITE"}
                    [] section.kind = "ReadOnlyData" -> {"SHF_ALLOC"},
     sh_addr |-> section.address,
     sh_size |-> section.size,
     sh_addralign |-> section.align,
     sh_info |-> 0,
     data |-> IF section.kind = "Bss" THEN <<>> ELSE section.data,
     relocs |-> [j \in 1..Len(section.relocations) |->
                    OutReloc(obj, section.relocations[j])]]

\* the header of a section the writer builds itself
OutMetaSection(name, type, info) ==
    [sh_name |-> name, sh_type |-> type, sh_flags |-> {}, sh_addr |-> 0,
     sh_size |-> 0, sh_addralign |-> 0, sh_info |-> info, data |-> <<>>,
     relocs |-> <<>>]

\* the relocation section headers, for the first n sections
RECURSIVE OutRelaSections(_, _)
OutRelaSections(obj, n) ==
    IF n = 0 THEN <<>>
    ELSE OutRelaSections(obj, n - 1)
         \o (IF obj.sections[n].relocations = <<>> THEN <<>>
             ELSE <<OutMetaSection(".rela" \o obj.sections[n].name,
                                   "SHT_RELA", n)>>)

\* the section table, in the order the indexes were reserved
OutSections(obj) ==
    <<OutMetaSection("", "SHT_NULL", 0)>>
    \o [i \in 1..Len(obj.sections) |-> OutSection(obj, obj.sections[i])]
    \o OutRelaSections(obj, Len(obj.sections))
    \o <<OutMetaSection(".symtab", "SHT_SYMTAB", NumLocal(obj)),
         OutMetaSection(".shstrtab", "SHT_STRTAB", 0),
         OutMetaSection(".strtab", "SHT_STRTAB", 0)>>

\* write_elf: [ok |-> TRUE, file |-> the container], or the Err
write_elf(obj) ==
    IF \E i \in 1..Len(obj.sections) :
          /\ obj.sections[i].kind # "Bss"
          /\ Len(obj.sections[i].data) # obj.sections[i].size
    THEN [ok |-> FALSE, error |-> "Mismatched section size",
          file |-> [e_type |-> "", sections |-> <<>>, symbols |-> <<>>]]
    ELSE [ok |-> TRUE, error |-> "",
          file |-> [e_type |-> IF obj.kind = "Executable" THEN "ET_EXEC"
                               ELSE "ET_REL",
                    sections |-> OutSections(obj),
                    symbols |-> OutSymbols(obj)]]

\* the match on obj_file.kind() of process_elf
ObjKindOf(e_type) ==
    IF e_type = "ET_EXEC" THEN "Executable" ELSE "Relocatable"

-----------------------------------------------------------------------------
(* process_elf as a state machine: one step per symbol, then the post-pass *)

\* the locals of process_elf when the symbol loop starts
InitLocals ==
    [pc |-> "symbols", error |-> "", obj_name |-> "", symbols |-> <<>>,
     symbol_indexes |-> <<>>, section_starts |-> <<>>,
     name_to_index |-> <<>>, boundary_state |-> LookForFile(<<>>)]

RECURSIVE RunSymbols(_, _, _, _)
\* the locals after `for symbol in obj_file.symbols()` has run over syms
\* (it stops at the first Err or panic)
RunSymbols(file, knd, si, syms) ==
    IF syms = <<>> THEN InitLocals
    ELSE LET st == RunSymbols(file, knd, si, SubSeq(syms, 1, Len(syms) - 1)) IN
         IF st.pc # "symbols" THEN st
         ELSE ProcessSymbol(st, file, knd, si, syms[Len(syms)])

\* process_elf on a whole container: [pc |-> "done", ..the ObjInfo..], or
\* pc "error" / "panic"
process_elf(file, knd) ==
    LET si == SectionIndexes(file.sections)
        st == RunSymbols(file, knd, si, file.symbols)
        rr == RunRelocs(file, si, st.symbol_indexes,
                        SectionPass(file.sections, Len(file.sections)),
                        RelocList(file.sections, Len(file.sections)))
        fail(f) == [pc |-> f.pc, error |-> f.error, kind |-> knd, name |-> "",
                    sections |-> <<>>, symbols |-> <<>>, link_order |-> <<>>,
                    splits |-> <<>>]
    IN IF st.pc # "symbols" THEN fail(st)
       ELSE IF rr.pc # "relocs" THEN fail(rr)
       ELSE [pc |-> "done", error |-> "", kind |-> knd, name |-> st.obj_name,
             sections |-> rr.sections, symbols |-> st.symbols,
             link_order |-> LinkOrder(knd, st.section_starts),
             splits |-> Splits(knd, st.section_starts)]

ElfLocals ==
    [pc |-> pc, error |-> error, obj_name |-> obj_name, symbols |-> symbols,
     symbol_indexes |-> symbol_indexes, section_starts |-> section_starts,
     name_to_index |-> name_to_index, boundary_state |-> boundary_state]

SetLocals(st) ==
    /\ pc' = st.pc
    /\ error' = st.error
    /\ obj_name' = st.obj_name
    /\ symbols' = st.symbols
    /\ symbol_indexes' = st.symbol_indexes
    /\ section_starts' = st.section_starts
    /\ name_to_index' = st.name_to_index
    /\ boundary_state' = st.boundary_state

\* process_elf up to the symbol loop, on a container of kind k with the
\* section table raw
ElfStart(k, raw) ==
    /\ obj_file = [sections |-> raw, symbols |-> <<>>]
    /\ kind = k
    /\ sections = SectionPass(raw, Len(raw))
    /\ section_indexes = SectionIndexes(raw)
    /\ pc = InitLocals.pc
    /\ error = InitLocals.error
    /\ obj_name = InitLocals.obj_name
    /\ symbols = InitLocals.symbols
    /\ symbol_indexes = InitLocals.symbol_indexes
    /\ section_starts = InitLocals.section_starts
    /\ name_to_index = InitLocals.name_to_index
    /\ boundary_state = InitLocals.boundary_state
    /\ link_order = <<>>
    /\ splits = <<>>
    /\ section_idx = 0
    /\ rso = None
    /\ writer = None
    /\ hash = None
    /\ reader = None

Init == \E k \in {"Executable", "Relocatable"} : ElfStart(k, ElfSections)

\* the loop body runs on the next symbol of the table, drawn from S
ElfSymbol(S, max) ==
    /\ pc = "symbols"
    /\ Len(obj_file.symbols) < max
    /\ \E symbol \in S :
        /\ obj_file' = [obj_file EXCEPT !.symbols = Append(@, symbol)]
        /\ SetLocals(ProcessSymbol(ElfLocals, obj_file, kind,
                                   section_indexes, symbol))
    /\ UNCHANGED <<kind, sections, section_indexes, link_order, splits,
                   section_idx, rso, writer,
                   hash, reader>>

\* the symbol table is exhausted: the post-pass
PostPass ==
    /\ pc = "symbols"
    /\ pc' = "relocs"
    /\ link_order' = LinkOrder(kind, section_starts)
    /\ splits' = Splits(kind, section_starts)
    /\ UNCHANGED <<error, obj_file, kind, obj_name, sections, section_indexes,
                   symbols, symbol_indexes, section_starts, name_to_index,
                   boundary_state, section_idx, rso, writer,
                   hash, reader>>

\* the relocation loop is over: Ok(ObjInfo { .. })
Finish ==
    /\ pc = "relocs"
    /\ pc' = "done"
    /\ UNCHANGED <<error, obj_file, kind, obj_name, sections, section_indexes,
                   symbols, symbol_indexes, section_starts, name_to_index,
                   boundary_state, link_order, splits, section_idx, rso,
                   writer, hash, reader>>

\* the relocation records of the first n raw sections
RECURSIVE NumRelocs(_, _)
NumRelocs(raw, n) ==
    IF n = 0 THEN 0 ELSE NumRelocs(raw, n - 1) + Len(raw[n].relocs)

\* the relocation loop reaches the next record, of raw section s (0-based),
\* drawn from R: sections before s have no further records
ElfReloc(R, max) ==
    /\ pc = "relocs"
    /\ \E s \in section_idx..(Len(obj_file.sections) - 1) : \E reloc \in R :
        /\ is_some(section_indexes[s + 1])
        /\ NumRelocs(obj_file.sections, Len(obj_file.sections)) < max
        /\ LET st == PushReloc([pc |-> pc, error |-> error, sections |-> sections],
                               obj_file, symbol_indexes,
                               unwrap(section_indexes[s + 1]) + 1, reloc)
           IN /\ section_idx' = s
              /\ obj_file' = [obj_file EXCEPT
                                !.sections[s + 1].relocs = Append(@, reloc)]
              /\ pc' = st.pc
              /\ error' = st.error
              /\ sections' = st.sections
    /\ UNCHANGED <<kind, obj_name, section_indexes, symbols, symbol_indexes,
                   section_starts, name_to_index, boundary_state, link_order,
                   splits, rso, writer,
                   hash, reader>>

-----------------------------------------------------------------------------
(* process_rso as a state machine: the header, one step per section-table  *)
(* entry, the entry-point symbols, one step per export-table entry.  The   *)
(* module read so far is                                                   *)
(*   [header, section_info, exports, total_bss_size]                       *)
(* and the byte at position p of the file is p % 256.                      *)

RsoHeader(next, prev, version, bss_size, bss_section, prolog, epilog, unresolved) ==
    [next |-> next, prev |-> prev, version |-> version, bss_size |-> bss_size,
     bss_section |-> bss_section, prolog_section |-> prolog,
     epilog_section |-> epilog, unresolved_section |-> unresolved,
     prolog_offset |-> 0, epilog_offset |-> 4, unresolved_offset |-> 8,
     name |-> "m.rso", len |-> 32]

\* a u32 as its two 16-bit halves
U32(v) == [hi |-> v \div 65536, lo |-> v % 65536]

\* 0x80000000
HugeSize == [hi |-> 32768, lo |-> 0]

\* a + b on u32: the wrapped sum, and whether the addition overflowed
U32Add(a, b) ==
    LET lo == a.lo + b.lo
        hi == a.hi + b.hi + (lo \div 65536)
    IN [value |-> [hi |-> hi % 65536, lo |-> lo % 65536],
        overflow |-> hi >= 65536]

\* the headers of the decoder specification: well-formed ones, with and
\* without entry points and implicit regions, and one failing each ensure!
RsoHeaders ==
    { RsoHeader(0, 0, 1, b, 0, p, e, 0) : b \in {0, 4}, p \in {0, 1, 2}, e \in {0, 1} }
    \cup { RsoHeader(0, 0, 1, 0, 0, 0, 0, 2),
           RsoHeader(1, 0, 1, 0, 0, 0, 0, 0), RsoHeader(0, 1, 1, 0, 0, 0, 0, 0),
           RsoHeader(0, 0, 2, 0, 0, 0, 0, 0), RsoHeader(0, 0, 1, 0, 1, 0, 0, 0) }

\* the section-table entries of the decoder specification: empty entries,
\* implicit regions, data and executable sections, an offset below 4, an
\* offset with bit 1 set, a section past the end of the file, and an
\* implicit region of 2 GiB
RsoSectionInfos ==
    { [offset |-> o, size |-> U32(z)] :
        o \in {0, 2, 16, 17, 18, 64}, z \in {0, 4} }
    \cup { [offset |-> 0, size |-> HugeSize] }

\* the export-table entries of the decoder specification
RsoExports ==
    { [name |-> n, sym_off |-> 4, section_idx |-> x] :
        n \in {"g", ""}, x \in {0, 1, 2} }

RsoStart(header) ==
    /\ rso = Some([header |-> header, section_info |-> <<>>, exports |-> <<>>,
                   total_bss_size |-> U32(0)])
    /\ obj_file = [sections |-> <<>>, symbols |-> <<>>]
    /\ kind = "Relocatable"
    /\ sections = <<>>
    /\ section_indexes = <<>>
    /\ pc = "rso_header"
    /\ error = ""
    /\ obj_name = ""
    /\ symbols = <<>>
    /\ symbol_indexes = <<>>
    /\ section_starts = <<>>
    /\ name_to_index = <<>>
    /\ boundary_state = InitLocals.boundary_state
    /\ link_order = <<>>
    /\ splits = <<>>
    /\ section_idx = 0
    /\ writer = None
    /\ hash = None
    /\ reader = None

\* what process_rso never touches
RsoUnchanged ==
    UNCHANGED <<obj_file, kind, section_indexes, symbol_indexes, section_starts,
                name_to_index, boundary_state, link_order, splits, section_idx,
                writer, hash, reader>>

\* the ensure!s on the header; "" when they all pass
RsoHeaderError(header) ==
    IF header.next # 0 THEN "Expected 'next' to be 0"
    ELSE IF header.prev # 0 THEN "Expected 'prev' to be 0"
    ELSE IF header.version # 1 THEN "Unsupported RSO version"
    ELSE IF header.bss_section # 0 THEN "Expected 'bssSection' to be 0"
    ELSE ""

RsoReadHeader ==
    /\ pc = "rso_header"
    /\ IF RsoHeaderError(unwrap(rso).header) # ""
       THEN pc' = "error" /\ error' = RsoHeaderError(unwrap(rso).header)
       ELSE pc' = "rso_sections" /\ UNCHANGED error
    /\ UNCHANGED <<rso, obj_name, sections, symbols>>
    /\ RsoUnchanged

\* the bytes read_exact gets at offset, size of them
RsoData(offset, size) == [k \in 1..size |-> (offset + k - 1) % 256]

\* the section indexed by its table position
RsoSectionAtTableIndex(secs, idx, info) ==
    LET exec == info.offset % 2 = 1
        offset == info.offset - (info.offset % 4)
    IN [name |-> ".section" \o ToString(idx),
        kind |-> IF offset = 0 THEN "Bss" ELSE IF exec THEN "Code" ELSE "Data",
        address |-> 0,
        size |-> info.size,
        data |-> IF offset = 0 THEN <<>> ELSE RsoData(offset, info.size.lo),
        align |-> 0,
        index |-> idx,
        elf_index |-> idx,
        relocations |-> <<>>,
        file_offset |-> offset]

\* the ObjSection pushed for section-table entry idx (0-based)
RsoSection(secs, idx, info) ==
    LET exec == info.offset % 2 = 1
        offset == info.offset - (info.offset % 4)
    IN [name |-> ".section" \o ToString(idx),
        kind |-> IF offset = 0 THEN "Bss" ELSE IF exec THEN "Code" ELSE "Data",
        address |-> 0,
        size |-> info.size,
        data |-> IF offset = 0 THEN <<>> ELSE RsoData(offset, info.size.lo),
        align |-> 0,
        index |-> Len(secs),
        elf_index |-> idx,
        relocations |-> <<>>,
        file_offset |-> offset]

\* the body of the section-table loop on the next entry, drawn from S;
\* `total_bss_size += size` is a u32 addition: on overflow it panics in a
\* build with overflow checks and wraps in a build without them
RsoReadSection(S, max) ==
    /\ pc = "rso_sections"
    /\ Len(unwrap(rso).section_info) < max
    /\ \E info \in S : \E overflow_checks \in BOOLEAN :
        LET m == unwrap(rso)
            idx == Len(m.section_info)
            offset == info.offset - (info.offset % 4)
            total == U32Add(m.total_bss_size, info.size)
        IN IF info.size = U32(0)
           THEN /\ rso' = Some([m EXCEPT !.section_info = Append(@, info)])
                /\ UNCHANGED <<pc, error, sections>>
           ELSE IF offset # 0
                   /\ (info.size.hi # 0 \/ offset + info.size.lo > m.header.len)
           THEN /\ rso' = Some([m EXCEPT !.section_info = Append(@, info)])
                /\ pc' = "error"
                /\ error' = "failed to fill whole buffer"
                /\ UNCHANGED sections
           ELSE IF offset = 0 /\ total.overflow /\ overflow_checks
           THEN /\ rso' = Some([m EXCEPT !.section_info = Append(@, info)])
                /\ sections' = Append(sections, RsoSection(sections, idx, info))
                /\ pc' = "panic"
                /\ UNCHANGED error
           ELSE /\ rso' = Some([m EXCEPT
                                  !.section_info = Append(@, info),
                                  !.total_bss_size =
                                      IF offset = 0 THEN total.value ELSE @])
                /\ sections' = Append(sections, RsoSection(sections, idx, info))
                /\ UNCHANGED <<pc, error>>
    /\ UNCHANGED <<obj_name, symbols>>
    /\ RsoUnchanged

\* sections.iter().find(|section| section.elf_index == section_idx)
RsoFind(secs, section_id) ==
    IF \E i \in 1..Len(secs) : secs[i].elf_index = section_id
    THEN Some(secs[CHOOSE i \in 1..Len(secs) :
                     /\ secs[i].elf_index = section_id
                     /\ \A j \in 1..(i - 1) : secs[j].elf_index # section_id])
    ELSE None

\* the closure owning the symbol with the section index of the header
AddSymbolHeaderIndex(st, secs, section_id, offset, name) ==
    IF st.pc = "error" \/ section_id = 0 THEN st
    ELSE IF ~is_some(RsoFind(secs, section_id))
    THEN [st EXCEPT !.pc = "error", !.error = "Failed to locate section"]
    ELSE [st EXCEPT !.symbols =
            Append(@, [name |-> name, address |-> offset,
                       section |-> Some(section_id),
                       size |-> 0, flags |-> {"Global"}, kind |-> "Function"])]

\* the add_symbol closure on st = [pc, error, symbols]
add_symbol(st, secs, section_id, offset, name) ==
    IF st.pc = "error" \/ section_id = 0 THEN st
    ELSE IF ~is_some(RsoFind(secs, section_id))
    THEN [st EXCEPT !.pc = "error", !.error = "Failed to locate section"]
    ELSE [st EXCEPT !.symbols =
            Append(@, [name |-> name, address |-> offset,
                       section |-> Some(unwrap(RsoFind(secs, section_id)).index),
                       size |-> 0, flags |-> {"Global"}, kind |-> "Function"])]

\* the section table is exhausted: the ensure! on the bss size and
\* the three entry-point symbols
RsoEntryPoints ==
    /\ pc = "rso_sections"
    /\ LET h == unwrap(rso).header
           s0 == [pc |-> "rso_exports", error |-> "", symbols |-> symbols]
           s1 == add_symbol(s0, sections, h.prolog_section, h.prolog_offset,
                            "_prolog")
           s2 == add_symbol(s1, sections, h.epilog_section, h.epilog_offset,
                            "_epilog")
           s3 == add_symbol(s2, sections, h.unresolved_section,
                            h.unresolved_offset, "_unresolved")
       IN IF unwrap(rso).total_bss_size # U32(h.bss_size)
          THEN /\ pc' = "error"
               /\ error' = "Mismatched BSS size"
               /\ UNCHANGED symbols
          ELSE /\ pc' = s3.pc
               /\ error' = s3.error
               /\ symbols' = s3.symbols
    /\ UNCHANGED <<rso, obj_name, sections>>
    /\ RsoUnchanged

\* the body of the export-table loop on the next entry, drawn from S
RsoReadExport(S, max) ==
    /\ pc = "rso_exports"
    /\ Len(unwrap(rso).exports) < max
    /\ \E export \in S :
        /\ rso' = Some([unwrap(rso) EXCEPT !.exports = Append(@, export)])
        /\ symbols' =
              Append(symbols,
                     [name |-> export.name, address |-> export.sym_off,
                      section |->
                          IF is_some(RsoFind(sections, export.section_idx))
                          THEN Some(unwrap(RsoFind(sections,
                                                   export.section_idx)).index)
                          ELSE None,
                      size |-> 0, flags |-> {}, kind |-> "Unknown"])
    /\ UNCHANGED <<pc, error, obj_name, sections>>
    /\ RsoUnchanged

\* the tables are exhausted: Ok(ObjInfo { .. })
RsoFinish ==
    /\ pc = "rso_exports"
    /\ pc' = "done"
    /\ obj_name' = unwrap(rso).header.name
    /\ UNCHANGED <<error, rso, sections, symbols>>
    /\ RsoUnchanged

BoundarySymbol == ElfSymbol(BoundarySymbols, MaxSymbols)

Next == BoundarySymbol \/ PostPass \/ Finish

Spec == Init /\ [][Next]_vars

\* the decoder specification: a symbol table, then relocation records
DecodeSymbol ==
    ElfSymbol(IF obj_file.symbols = <<>> THEN {NullSym} ELSE DecodeSymbols,
              MaxDecodeSymbols)

DecodeReloc == ElfReloc(DecodeRelocs(Len(obj_file.symbols)), MaxRelocs)

DecodeSection == RsoReadSection(RsoSectionInfos, MaxRsoSections)

DecodeExport == RsoReadExport(RsoExports, MaxRsoExports)

InitDecode == Init \/ \E header \in RsoHeaders : RsoStart(header)

NextDecode ==
    \/ DecodeSymbol \/ PostPass \/ DecodeReloc \/ Finish
    \/ RsoReadHeader \/ DecodeSection \/ RsoEntryPoints \/ DecodeExport
    \/ RsoFinish

SpecDecode == InitDecode /\ [][NextDecode]_vars

-----------------------------------------------------------------------------
(* write_elf as a state machine over the two passes of the Writer: the      *)
(* reservation pass fixes every offset, the write pass emits the bytes.     *)
(* The Object is in kind, obj_name, sections and symbols; writer holds the  *)
(* Writer's counters together with the locals of write_elf.                 *)

MaxWriteSections == 2
MaxWriteSymbols == 2
MaxWriteRelocs == 1

\* longest name of the hash specification, beside the named ones
MaxHashLen == 3

\* the largest position of the inner reader of the adapter specification
MaxStream == 4

\* the length of the stream the inner reader reads: it can be sought past
StreamLen == MaxStream - 1

\* sizes of the 32-bit structures (Writer::new(Endianness::Big, false, ..))
FileHeaderSize == 52
ProgramHeaderSize == 32
SectionHeaderSize == 40
SymSize == 16
RelaSize == 12
ElfAlign == 4
SectionAlign == 32

\* util::align
Align(offset, size) == ((offset + size - 1) \div size) * size

Region(name, index, offset, size) ==
    [region |-> name, index |-> index, offset |-> offset, size |-> size]

\* a reservation that takes len bytes at the current length, unaligned
ReserveUnaligned(w, name, index, len, align_start) ==
    [w EXCEPT !.len = @ + len,
              !.reserved = Append(@, Region(name, index, w.len, len))]

\* Writer::reserve(len, align_start): the range starts at the aligned length
reserve(w, name, index, len, align_start) ==
    LET offset == IF align_start > 1 THEN Align(w.len, align_start) ELSE w.len
    IN [w EXCEPT !.len = offset + len,
                 !.reserved = Append(@, Region(name, index, offset, len))]

\* the offset Writer::reserve returned last
LastOffset(w) == w.reserved[Len(w.reserved)].offset

\* Writer::write_align(align_start)
write_align(w, align_start) ==
    IF align_start > 1 THEN [w EXCEPT !.buffer = Align(@, align_start)] ELSE w

\* Writer::write(data), for the len bytes of a region
write(w, name, index, len) ==
    [w EXCEPT !.buffer = @ + len,
              !.written = Append(@, Region(name, index, w.buffer, len))]

RECURSIVE StrTabLen(_)
StrTabLen(names) ==
    IF names = {} THEN 0
    ELSE LET n == CHOOSE x \in names : TRUE
         IN Len(n) + 1 + StrTabLen(names \ {n})

\* the length of a string table: the leading NUL, then every string that is
\* not the tail of another one, each with its NUL
StrTabSize(names) ==
    1 + StrTabLen({n \in names :
                      n # "" /\ ~\E m \in names : m # n /\ ends_with(m, n)})

\* Writer::new and the locals of write_elf before the first statement
NewWriter ==
    [len |-> 0, buffer |-> 0, reserved |-> <<>>, written |-> <<>>,
     section_num |-> 0, symtab_num |-> 0, shstrtab |-> {}, strtab |-> {},
     need_strtab |-> FALSE, segment_offset |-> 0, shstrtab_offset |-> 0,
     strtab_offset |-> 0, symtab_offset |-> 0, section_offset |-> 0,
     out_sections |-> <<>>, out_symbols |-> <<>>, symbol_offset |-> 0,
     num_local |-> 0, i |-> 0, symtab |-> <<>>, relas |-> <<>>, sh_info |-> 0,
     symtab_index |-> 0, rela_headers |-> <<>>, shstrtab_index |-> 0,
     strtab_index |-> 0, section_headers |-> <<>>]

\* the argument of write_elf
WriteInput ==
    [kind |-> kind, name |-> obj_name, sections |-> sections, symbols |-> symbols]

\* the variables write_elf only reads, and those of the decoders
WriteUnchanged ==
    UNCHANGED <<obj_file, kind, obj_name, sections, section_indexes, symbols,
                symbol_indexes, section_starts, name_to_index, boundary_state,
                link_order, splits, section_idx, rso, hash, reader>>

\* one step of write_elf that ends in w, or in a failed debug_assert_eq!
WriteStep(ok, w, next) ==
    /\ pc' = IF ok THEN next ELSE "panic"
    /\ writer' = IF ok THEN Some(w) ELSE writer
    /\ UNCHANGED error
    /\ WriteUnchanged

\* a companion name for every section
RelaNameAlways(section) == Some(".rela" \o section.name)

\* rela_name: set for a section whose relocations are not empty
RelaName(section) ==
    IF section.relocations # <<>> THEN Some(".rela" \o section.name) ELSE None

\* the number of relocation section indexes reserved for the first n sections
RECURSIVE NumRela(_, _)
NumRela(secs, n) ==
    IF n = 0 THEN 0
    ELSE NumRela(secs, n - 1) + (IF is_some(RelaName(secs[n])) THEN 1 ELSE 0)

\* reserve_null_section_index, the section and relocation-section names and
\* indexes, and the indexes of .symtab, .shstrtab and .strtab
WriteReserveIndexes ==
    /\ pc = "write_indexes"
    /\ LET w == unwrap(writer)
           n == Len(sections)
       IN WriteStep(TRUE,
             [w EXCEPT
                !.section_num = 1 + n + NumRela(sections, n) + 3,
                !.shstrtab =
                    {sections[s].name : s \in 1..n}
                    \cup {unwrap(RelaName(sections[s])) :
                            s \in {t \in 1..n : is_some(RelaName(sections[t]))}}
                    \cup {".symtab", ".shstrtab", ".strtab"},
                !.out_sections =
                    [s \in 1..n |->
                        [index |-> s,
                         rela_index |->
                            IF is_some(RelaName(sections[s]))
                            THEN Some(n + NumRela(sections, s))
                            ELSE None,
                         offset |-> 0, rela_offset |-> 0,
                         rela_name |-> RelaName(sections[s])]],
                !.symtab_index = 1 + n + NumRela(sections, n),
                !.shstrtab_index = 1 + n + NumRela(sections, n) + 1,
                !.strtab_index = 1 + n + NumRela(sections, n) + 2],
             "write_file_symbol")

\* the leading file symbol, when obj.name is not empty
WriteFileSymbol ==
    /\ pc = "write_file_symbol"
    /\ LET w == unwrap(writer) IN
       WriteStep(TRUE,
          IF obj_name # ""
          THEN [w EXCEPT !.strtab = @ \cup {obj_name},
                         !.need_strtab = TRUE,
                         !.symtab_num = 2,
                         !.out_symbols = <<OutFileSymbol(WriteInput)>>,
                         !.symbol_offset = 1]
          ELSE w,
          "write_symbols")

\* the body of `for symbol in &obj.symbols`
WriteSymbol ==
    /\ pc = "write_symbols"
    /\ LET w == unwrap(writer) IN
       IF w.i < Len(symbols)
       THEN LET symbol == symbols[w.i + 1]
                count == (IF w.symtab_num = 0 THEN 1 ELSE w.symtab_num) + 1
                sym == OutSymbol(WriteInput, symbol)
            IN WriteStep(TRUE,
                  [w EXCEPT
                     !.symtab_num = count,
                     !.strtab = IF symbol.name = "" THEN @
                                ELSE @ \cup {symbol.name},
                     !.need_strtab = @ \/ symbol.name # "",
                     !.num_local = IF sym.st_bind = "STB_LOCAL" THEN count
                                   ELSE @,
                     !.out_symbols = Append(@, sym),
                     !.i = @ + 1],
                  "write_symbols")
       ELSE WriteStep(TRUE, [w EXCEPT !.i = 0], "write_reserve_headers")

\* reserve_file_header, and reserve_program_headers for an Executable
WriteReserveHeaders ==
    /\ pc = "write_reserve_headers"
    /\ LET w == reserve(unwrap(writer), "file_header", 0, FileHeaderSize, 1)
           p == reserve(w, "program_headers", 0,
                        Len(sections) * ProgramHeaderSize, ElfAlign)
       IN WriteStep(TRUE,
             IF kind = "Executable" /\ Len(sections) # 0
             THEN [p EXCEPT !.segment_offset = LastOffset(p)]
             ELSE w,
             "write_reserve_sections")

\* no section is refused
AnySectionSize(section) == FALSE

\* the ensure! of the section loop fails
MismatchedSectionSize(section) == Len(section.data) # section.size

\* the body of the loop that reserves the section data
WriteReserveSection ==
    /\ pc = "write_reserve_sections"
    /\ LET w == unwrap(writer) IN
       IF w.i < Len(sections)
       THEN LET section == sections[w.i + 1]
                r == reserve(w, "section", w.i + 1, Len(section.data),
                             SectionAlign)
            IN IF section.kind = "Bss"
               THEN WriteStep(TRUE, [w EXCEPT !.i = @ + 1],
                              "write_reserve_sections")
               ELSE IF MismatchedSectionSize(section)
               THEN /\ pc' = "error"
                    /\ error' = "Mismatched section size"
                    /\ UNCHANGED writer
                    /\ WriteUnchanged
               ELSE WriteStep(TRUE,
                       [r EXCEPT !.out_sections[w.i + 1].offset = LastOffset(r),
                                 !.i = @ + 1],
                       "write_reserve_sections")
       ELSE WriteStep(TRUE, [w EXCEPT !.i = 0], "write_reserve_tables")

\* reserve_shstrtab, reserve_strtab, reserve_symtab
WriteReserveTables ==
    /\ pc = "write_reserve_tables"
    /\ LET w == unwrap(writer)
           a == reserve(w, "shstrtab", 0, StrTabSize(w.shstrtab), 1)
           b == IF w.section_num = 0 THEN w
                ELSE [a EXCEPT !.shstrtab_offset = LastOffset(a)]
           c == reserve(b, "strtab", 0, StrTabSize(b.strtab), 1)
           d == IF ~b.need_strtab THEN b
                ELSE [c EXCEPT !.strtab_offset = LastOffset(c)]
           e == reserve(d, "symtab", 0, d.symtab_num * SymSize, ElfAlign)
           f == IF d.symtab_num = 0 THEN d
                ELSE [e EXCEPT !.symtab_offset = LastOffset(e)]
       IN WriteStep(TRUE, f, "write_reserve_relocations")

\* the body of the loop that reserves the relocation tables
WriteReserveRelocations ==
    /\ pc = "write_reserve_relocations"
    /\ LET w == unwrap(writer) IN
       IF w.i < Len(sections)
       THEN LET section == sections[w.i + 1]
                r == reserve(w, "rela", w.i + 1,
                             Len(section.relocations) * RelaSize, ElfAlign)
            IN WriteStep(TRUE,
                  IF section.relocations = <<>> THEN [w EXCEPT !.i = @ + 1]
                  ELSE [r EXCEPT
                          !.out_sections[w.i + 1].rela_offset = LastOffset(r),
                          !.i = @ + 1],
                  "write_reserve_relocations")
       ELSE WriteStep(TRUE, [w EXCEPT !.i = 0], "write_headers")

\* reserve_section_headers; write_file_header; the program headers
WriteHeaders ==
    /\ pc = "write_headers"
    /\ LET w == unwrap(writer)
           a == reserve(w, "section_headers", 0,
                        w.section_num * SectionHeaderSize, ElfAlign)
           b == IF w.section_num = 0 THEN w
                ELSE [a EXCEPT !.section_offset = LastOffset(a)]
           c == write(b, "file_header", 0, FileHeaderSize)
           d == write_align(c, ElfAlign)
           e == write(d, "program_headers", 0,
                      Len(sections) * ProgramHeaderSize)
       IN IF kind = "Executable" /\ c.segment_offset # 0
          THEN WriteStep(b.buffer = 0 /\ d.buffer = d.segment_offset, e,
                         "write_sections")
          ELSE WriteStep(b.buffer = 0, c, "write_sections")

\* the body of the loop that writes the section data
WriteSectionData ==
    /\ pc = "write_sections"
    /\ LET w == unwrap(writer) IN
       IF w.i < Len(sections)
       THEN LET section == sections[w.i + 1]
                a == write_align(w, SectionAlign)
            IN IF section.kind = "Bss"
               THEN WriteStep(TRUE, [w EXCEPT !.i = @ + 1], "write_sections")
               ELSE WriteStep(a.buffer = w.out_sections[w.i + 1].offset,
                              [write(a, "section", w.i + 1, Len(section.data))
                                  EXCEPT !.i = @ + 1],
                              "write_sections")
       ELSE WriteStep(TRUE, [w EXCEPT !.i = 0], "write_tables")

\* write_shstrtab, write_strtab, write_null_symbol and the symbols
WriteTables ==
    /\ pc = "write_tables"
    /\ LET w == unwrap(writer)
           a == IF w.shstrtab_offset = 0 THEN w
                ELSE write(w, "shstrtab", 0, StrTabSize(w.shstrtab))
           b == IF a.strtab_offset = 0 THEN a
                ELSE write(a, "strtab", 0, StrTabSize(a.strtab))
           c == write_align(b, ElfAlign)
           d == IF b.symtab_num = 0
                THEN [b EXCEPT !.symtab = b.out_symbols]
                ELSE [write(c, "symtab", 0, (1 + Len(c.out_symbols)) * SymSize)
                         EXCEPT !.symtab = <<NullSym>> \o c.out_symbols]
       IN WriteStep(/\ w.shstrtab_offset # 0 => w.shstrtab_offset = w.buffer
                    /\ a.strtab_offset # 0 => a.strtab_offset = a.buffer
                    /\ b.symtab_num # 0 => b.symtab_offset = c.buffer,
                    d, "write_relocations")

\* the body of the loop that writes the relocation tables
WriteRelocations ==
    /\ pc = "write_relocations"
    /\ LET w == unwrap(writer) IN
       IF w.i < Len(sections)
       THEN LET section == sections[w.i + 1]
                a == write_align(w, ElfAlign)
                b == write(a, "rela", w.i + 1,
                           Len(section.relocations) * RelaSize)
            IN IF section.relocations = <<>>
               THEN WriteStep(TRUE, [w EXCEPT !.i = @ + 1], "write_relocations")
               ELSE WriteStep(
                       a.buffer = w.out_sections[w.i + 1].rela_offset,
                       [b EXCEPT
                          !.relas =
                              Append(@,
                                 [section |-> w.i + 1,
                                  records |->
                                     [j \in 1..Len(section.relocations) |->
                                         OutReloc(WriteInput,
                                                  section.relocations[j])]]),
                          !.i = @ + 1],
                       "write_relocations")
       ELSE WriteStep(TRUE, [w EXCEPT !.i = 0], "write_section_headers")

\* write_relocation_section_header for the first n sections
RECURSIVE RelaHeaders(_, _)
RelaHeaders(w, n) ==
    IF n = 0 THEN <<>>
    ELSE RelaHeaders(w, n - 1)
         \o (IF w.out_sections[n].rela_name = None THEN <<>>
             ELSE <<[sh_name |-> unwrap(w.out_sections[n].rela_name),
                     sh_info |-> w.out_sections[n].index,
                     sh_link |-> w.symtab_index,
                     sh_offset |-> w.out_sections[n].rela_offset,
                     count |-> Len(sections[n].relocations)]>>)

\* a section header as far as the layout goes
SectionHeader(name, type, offset, link, info) ==
    [sh_name |-> name, sh_type |-> type, sh_offset |-> offset,
     sh_link |-> link, sh_info |-> info]

\* write_null_section_header and the write_section_header loop
ObjSectionHeaders(w, secs) ==
    <<SectionHeader("", "SHT_NULL", 0, 0, 0)>>
    \o [n \in 1..Len(secs) |->
            SectionHeader(secs[n].name,
                          IF secs[n].kind = "Bss" THEN "SHT_NOBITS"
                          ELSE "SHT_PROGBITS",
                          w.out_sections[n].offset, 0, 0)]

\* the write_relocation_section_header loop
RelaSectionHeaders(w, secs) ==
    [h \in 1..Len(RelaHeaders(w, Len(secs))) |->
        SectionHeader(RelaHeaders(w, Len(secs))[h].sh_name, "SHT_RELA",
                      RelaHeaders(w, Len(secs))[h].sh_offset,
                      RelaHeaders(w, Len(secs))[h].sh_link,
                      RelaHeaders(w, Len(secs))[h].sh_info)]

\* write_symtab_section_header(num_local), write_shstrtab_section_header,
\* write_strtab_section_header
TableSectionHeaders(w) ==
    << SectionHeader(".symtab", "SHT_SYMTAB", w.symtab_offset, w.strtab_index,
                     w.num_local),
       SectionHeader(".shstrtab", "SHT_STRTAB", w.shstrtab_offset, 0, 0),
       SectionHeader(".strtab", "SHT_STRTAB", w.strtab_offset, 0, 0) >>

\* the headers with those of the tables written before those of the
\* relocation sections
SectionHeadersTablesFirst(w, secs) ==
    ObjSectionHeaders(w, secs) \o TableSectionHeaders(w)
    \o RelaSectionHeaders(w, secs)

\* the section headers in the order write_elf writes them
SectionHeaders(w, secs) ==
    ObjSectionHeaders(w, secs) \o RelaSectionHeaders(w, secs)
    \o TableSectionHeaders(w)

\* the section headers, the last debug_assert_eq! and Ok(out_data)
WriteSectionHeaders ==
    /\ pc = "write_section_headers"
    /\ LET w == unwrap(writer)
           a == write_align(w, ElfAlign)
           b == IF w.section_num = 0 THEN w
                ELSE write(a, "section_headers", 0,
                           w.section_num * SectionHeaderSize)
       IN WriteStep(/\ w.section_num # 0 => w.section_offset = a.buffer
                    /\ b.len = b.buffer,
                    [b EXCEPT !.sh_info = w.num_local,
                              !.rela_headers = RelaHeaders(w, Len(sections)),
                              !.section_headers = SectionHeaders(w, sections)],
                    "done")

\* every sequence over S of length at most n
SeqsUpTo(S, n) == UNION {[1..k -> S] : k \in 0..n}

WriteSection(name, knd, size, data, relocations) ==
    [name |-> name, kind |-> knd, address |-> 0, size |-> size, data |-> data,
     align |-> 4, index |-> 0, elf_index |-> 0, relocations |-> relocations]

WriteReloc(knd, address, target_symbol) ==
    [kind |-> knd, address |-> address, target_symbol |-> target_symbol,
     addend |-> I64(8)]

\* sections: code and data with a relocation, data whose length is not a
\* multiple of the alignment, bss, data shorter than its size, empty data
WriteSectionTemplates ==
    { WriteSection(".text", "Code", 8, <<0, 0, 0, 8, 0, 0, 0, 0>>,
                   <<WriteReloc("PpcRel24", 4, 0)>>),
      WriteSection(".data", "Data", 3, <<1, 2, 3>>,
                   <<WriteReloc("Absolute", 1, 1)>>),
      WriteSection(".sdata", "Data", 3, <<1, 2, 3>>, <<>>),
      WriteSection(".bss", "Bss", 4, <<>>, <<>>),
      WriteSection(".sdata2", "ReadOnlyData", 4, <<1, 2, 3>>, <<>>),
      WriteSection(".rodata", "ReadOnlyData", 0, <<>>, <<>>) }

WriteSymbolTemplates ==
    { [name |-> "f", address |-> 4, section |-> Some(0), size |-> 4,
       flags |-> {"Local"}, kind |-> "Function"],
      [name |-> "g", address |-> 0, section |-> None, size |-> 0,
       flags |-> {"Global"}, kind |-> "Object"] }

WriteRelocTemplates ==
    { WriteReloc(k, a, t) :
        k \in {"Absolute", "PpcAddr16Hi", "PpcAddr16Ha", "PpcAddr16Lo",
               "PpcRel24", "PpcRel14", "PpcEmbSda21"},
        a \in {4, 6}, t \in {0, 1} }

\* Objects that vary in their sections, symbols, unit name and kind
LayoutObjects ==
    { [kind |-> k, name |-> n, sections |-> secs, symbols |-> syms] :
        k \in {"Executable", "Relocatable"}, n \in {"", "a.c"},
        secs \in SeqsUpTo(WriteSectionTemplates, MaxWriteSections),
        syms \in SeqsUpTo(WriteSymbolTemplates, MaxWriteSymbols) }

\* Objects that vary in the relocations of their one section
RelocObjects ==
    { [kind |-> "Relocatable", name |-> n,
       sections |-> <<WriteSection(".text", "Code", 8,
                                   <<0, 0, 0, 8, 0, 0, 0, 0>>, relocs)>>,
       symbols |-> <<[name |-> "f", address |-> 4, section |-> Some(0),
                      size |-> 4, flags |-> {"Local"}, kind |-> "Function"],
                     [name |-> "g", address |-> 0, section |-> None,
                      size |-> 0, flags |-> {"Global"}, kind |-> "Object"]>>] :
        n \in {"", "a.c"},
        relocs \in SeqsUpTo(WriteRelocTemplates, MaxWriteRelocs) \ {<<>>} }

WriteObjSymbol(name, address, section, flags, knd) ==
    [name |-> name, address |-> address, section |-> section, size |-> 4,
     flags |-> flags, kind |-> knd]

\* symbols that vary in their attributes, kind, owning section and address
WriteSymbolEncodings ==
    { WriteObjSymbol("a", 4, Some(0), {"Local", "Weak"}, "Function"),
      WriteObjSymbol(".text", 0, Some(0), {"Local"}, "Section"),
      WriteObjSymbol("b", 8, None, {"Global", "Weak", "Hidden"}, "Object"),
      WriteObjSymbol("c", 0, None, {"Global", "Common"}, "Object"),
      WriteObjSymbol("d", 0, Some(0), {"Global", "Hidden"}, "Unknown"),
      WriteObjSymbol("e", 8, None, {"Local", "Common"}, "Function"),
      WriteObjSymbol("h", 4, Some(1), {}, "Object") }

\* Objects that vary in the attributes of their symbols
SymbolObjects ==
    { [kind |-> "Relocatable", name |-> n,
       sections |-> <<WriteSection(".text", "Code", 8,
                                   <<0, 0, 0, 8, 0, 0, 0, 0>>, <<>>),
                      WriteSection(".bss", "Bss", 4, <<>>, <<>>)>>,
       symbols |-> syms] :
        n \in {"", "a.c"},
        syms \in SeqsUpTo(WriteSymbolEncodings, MaxWriteSymbols) \ {<<>>} }

\* sections[i].index is the position of the section
Indexed(obj) ==
    [obj EXCEPT !.sections =
        [i \in 1..Len(obj.sections) |->
            [obj.sections[i] EXCEPT !.index = i - 1, !.elf_index = i]]]

WriteObjects ==
    {Indexed(obj) : obj \in LayoutObjects \cup RelocObjects \cup SymbolObjects}

\* write_elf is called on an Object
WriteStart(obj) ==
    /\ kind = obj.kind
    /\ obj_name = obj.name
    /\ sections = obj.sections
    /\ symbols = obj.symbols
    /\ pc = "write_indexes"
    /\ error = ""
    /\ writer = Some(NewWriter)
    /\ obj_file = [sections |-> <<>>, symbols |-> <<>>]
    /\ section_indexes = <<>>
    /\ symbol_indexes = <<>>
    /\ section_starts = <<>>
    /\ name_to_index = <<>>
    /\ boundary_state = InitLocals.boundary_state
    /\ link_order = <<>>
    /\ splits = <<>>
    /\ section_idx = 0
    /\ rso = None
    /\ hash = None
    /\ reader = None

InitWrite == \E obj \in WriteObjects : WriteStart(obj)

NextWrite ==
    \/ WriteReserveIndexes \/ WriteFileSymbol \/ WriteSymbol
    \/ WriteReserveHeaders \/ WriteReserveSection \/ WriteReserveTables
    \/ WriteReserveRelocations \/ WriteHeaders \/ WriteSectionData
    \/ WriteTables \/ WriteRelocations \/ WriteSectionHeaders

SpecWrite == InitWrite /\ [][NextWrite]_vars

-----------------------------------------------------------------------------
(* symbol_hash: the fold over the bytes of a name.  A u32 is kept as its    *)
(* two 16-bit halves.                                                        *)

\* the bitwise exclusive or of two naturals
RECURSIVE Xor(_, _)
Xor(a, b) ==
    IF a = 0 THEN b
    ELSE IF b = 0 THEN a
    ELSE 2 * Xor(a \div 2, b \div 2) + ((a + b) % 2)

\* hash << 4: the bits shifted out are dropped
Shl4(v) ==
    [hi |-> (16 * v.hi + v.lo \div 4096) % 65536, lo |-> (16 * v.lo) % 65536]

\* the closure of the fold on one byte: the next accumulator, and whether
\* the addition overflowed
HashByte(h, c) ==
    LET sum == U32Add(Shl4(h), U32(c))
        m == sum.value
        n == [hi |-> 4096 * (m.hi \div 4096), lo |-> 0]
        x == IF n # U32(0)
             THEN [hi |-> m.hi, lo |-> Xor(m.lo, n.hi \div 256)]
             ELSE m
    IN [value |-> [hi |-> x.hi % 4096, lo |-> x.lo], overflow |-> sum.overflow]

\* s.bytes().fold(0u32, ..): the accumulator after the bytes of s, and
\* whether an addition overflowed on the way
RECURSIVE symbol_hash(_)
symbol_hash(s) ==
    IF s = <<>> THEN [value |-> U32(0), overflow |-> FALSE]
    ELSE LET init == symbol_hash(SubSeq(s, 1, Len(s) - 1))
             last == HashByte(init.value, s[Len(s)])
         IN [value |-> last.value,
             overflow |-> init.overflow \/ last.overflow]

\* the bytes of "main" and of "hxxxxryp"
Main == <<109, 97, 105, 110>>
Hxxxxryp == <<104, 120, 120, 120, 120, 114, 121, 112>>

\* the bytes the names of the hash specification are made of: 0, a, z, DEL
HashBytes == {48, 97, 122, 127}

\* the names hashed
HashNames ==
    SeqsUpTo(HashBytes, MaxHashLen)
    \cup {Main, Hxxxxryp, SubSeq(Hxxxxryp, 1, 7)}

HashStart(s) ==
    /\ hash = Some([s |-> s, value |-> U32(0)])
    /\ pc = "hash"
    /\ error = ""
    /\ kind = "Relocatable"
    /\ obj_name = ""
    /\ sections = <<>>
    /\ symbols = <<>>
    /\ obj_file = [sections |-> <<>>, symbols |-> <<>>]
    /\ section_indexes = <<>>
    /\ symbol_indexes = <<>>
    /\ section_starts = <<>>
    /\ name_to_index = <<>>
    /\ boundary_state = InitLocals.boundary_state
    /\ link_order = <<>>
    /\ splits = <<>>
    /\ section_idx = 0
    /\ rso = None
    /\ writer = None
    /\ reader = None

\* symbol_hash(s) is called: an overflowing addition panics in a build with
\* overflow checks and wraps in a build without them
SymbolHash ==
    /\ pc = "hash"
    /\ \E overflow_checks \in BOOLEAN :
        LET r == symbol_hash(unwrap(hash).s)
        IN IF r.overflow /\ overflow_checks
           THEN pc' = "panic" /\ UNCHANGED hash
           ELSE /\ pc' = "done"
                /\ hash' = Some([unwrap(hash) EXCEPT !.value = r.value])
    /\ UNCHANGED <<error, obj_file, kind, obj_name, sections, section_indexes,
                   symbols, symbol_indexes, section_starts, name_to_index,
                   boundary_state, link_order, splits, section_idx, rso,
                   writer, reader>>

InitHash == \E s \in HashNames : HashStart(s)

NextHash == SymbolHash

SpecHash == InitHash /\ [][NextHash]_vars

-----------------------------------------------------------------------------
(* TakeSeek over an inner reader that is a stream of StreamLen bytes with a *)
(* position.  A u64 is kept as the integer of least magnitude congruent to  *)
(* it modulo 2^64: a negative v stands for 2^64 + v, so that u64::MAX is -1. *)
(* reader holds the struct (inner, pos, end) and a history of the calls:    *)
(*   created  [pos, limit] of the take_seek call                            *)
(*   limited  whether set_limit was called since                             *)
(*   call     the last call: [op, arg, from, n], where a read returned the   *)
(*            n bytes at the inner positions from .. from + n - 1            *)

\* u64::MAX
U64Max == 0 - 1

\* a < b on u64
U64Less(a, b) == IF (a < 0) = (b < 0) THEN a < b ELSE b < 0

\* a + b on u64: the wrapped sum, and whether the addition overflowed
U64Add(a, b) ==
    [value |-> a + b,
     overflow |-> (a < 0 /\ b < 0) \/ ((a < 0) # (b < 0) /\ a + b >= 0)]

\* a.saturating_sub(b)
saturating_sub(a, b) == IF U64Less(a, b) THEN 0 ELSE a - b

\* self.end.saturating_sub(self.pos)
limit(ts) == saturating_sub(ts.end, ts.pos)

\* TakeSeek { inner: self, pos, end: pos + limit }
take_seek(inner, lim) ==
    [inner |-> inner, pos |-> inner.pos, end |-> U64Add(inner.pos, lim).value]

\* set_limit taking the limit as the end
SetLimitAbsolute(ts, lim) ==
    [ts EXCEPT !.pos = ts.inner.pos, !.end = lim]

\* self.pos = pos; self.end = pos + limit, for pos the position of inner
set_limit(ts, lim) ==
    [ts EXCEPT !.pos = ts.inner.pos, !.end = U64Add(ts.inner.pos, lim).value]

\* the position inner.seek(from) gives, None when it is negative
SeekTarget(inner, from) ==
    LET target == CASE from.whence = "Start" -> from.offset
                    [] from.whence = "Current" -> inner.pos + from.offset
                    [] from.whence = "End" -> StreamLen + from.offset
    IN IF target < 0 THEN None ELSE Some(target)

\* the limits of the adapter specification
Limits == {0, 1, 2, MaxStream, U64Max}

\* the lengths of the buffers read into
BufLens == {0, 1, 2, MaxStream}

\* the arguments of seek
SeekFroms ==
    { [whence |-> "Start", offset |-> k] : k \in {0, 1, MaxStream} }
    \cup { [whence |-> "Current", offset |-> d] : d \in {0 - 2, 1} }
    \cup { [whence |-> "End", offset |-> d] : d \in {0 - 1, 0} }

NoCall == [op |-> "", arg |-> 0, from |-> 0, n |-> 0]

TakeSeekStart(p) ==
    /\ reader = Some([inner |-> [pos |-> p], pos |-> 0, end |-> 0,
                      created |-> [pos |-> 0, limit |-> 0], limited |-> FALSE,
                      call |-> NoCall])
    /\ pc = "stream"
    /\ error = ""
    /\ kind = "Relocatable"
    /\ obj_name = ""
    /\ sections = <<>>
    /\ symbols = <<>>
    /\ obj_file = [sections |-> <<>>, symbols |-> <<>>]
    /\ section_indexes = <<>>
    /\ symbol_indexes = <<>>
    /\ section_starts = <<>>
    /\ name_to_index = <<>>
    /\ boundary_state = InitLocals.boundary_state
    /\ link_order = <<>>
    /\ splits = <<>>
    /\ section_idx = 0
    /\ rso = None
    /\ writer = None
    /\ hash = None

\* what the adapter never touches
TakeSeekUnchanged ==
    UNCHANGED <<error, obj_file, kind, obj_name, sections, section_indexes,
                symbols, symbol_indexes, section_starts, name_to_index,
                boundary_state, link_order, splits, section_idx, rso, writer,
                hash>>

\* inner.take_seek(limit): `pos + limit` panics on overflow in a build with
\* overflow checks and wraps in a build without them
TakeSeekCreate ==
    /\ pc = "stream"
    /\ \E lim \in Limits : \E overflow_checks \in BOOLEAN :
        LET ts == unwrap(reader)
            new == take_seek(ts.inner, lim)
        IN /\ reader' = Some([ts EXCEPT
                                !.pos = new.pos, !.end = new.end,
                                !.created = [pos |-> new.pos, limit |-> lim],
                                !.call = [NoCall EXCEPT !.op = "take_seek",
                                                        !.arg = lim]])
           /\ pc' = IF U64Add(ts.inner.pos, lim).overflow /\ overflow_checks
                    THEN "panic" ELSE "take_seek"
    /\ TakeSeekUnchanged

\* read(buf): the inner reader gives between 1 and max bytes while it has
\* some, and 0 at its end
TakeSeekRead ==
    /\ pc = "take_seek"
    /\ \E len \in BufLens :
        LET ts == unwrap(reader)
            max == IF U64Less(limit(ts), len) THEN limit(ts) ELSE len
            left == IF ts.inner.pos < StreamLen
                    THEN StreamLen - ts.inner.pos ELSE 0
            most == IF max < left THEN max ELSE left
        IN \E n \in (IF limit(ts) = 0 \/ most = 0 THEN {0} ELSE 1..most) :
            reader' = Some([ts EXCEPT
                             !.inner.pos = @ + n,
                             !.pos = @ + n,
                             !.call = [op |-> "read", arg |-> len,
                                       from |-> ts.inner.pos, n |-> n]])
    /\ UNCHANGED pc
    /\ TakeSeekUnchanged

\* seek(pos): self.pos = self.inner.seek(pos)?
TakeSeekSeek ==
    /\ pc = "take_seek"
    /\ \E from \in SeekFroms :
        LET ts == unwrap(reader)
            target == SeekTarget(ts.inner, from)
        IN /\ is_some(target) => unwrap(target) <= MaxStream
           /\ reader' = Some(
                 IF is_some(target)
                 THEN [ts EXCEPT !.inner.pos = unwrap(target),
                                 !.pos = unwrap(target),
                                 !.call = [NoCall EXCEPT !.op = "seek",
                                                         !.arg = unwrap(target)]]
                 ELSE [ts EXCEPT !.call = [NoCall EXCEPT !.op = "seek failed"]])
    /\ UNCHANGED pc
    /\ TakeSeekUnchanged

\* set_limit(limit)
TakeSeekSetLimit ==
    /\ pc = "take_seek"
    /\ \E lim \in Limits : \E overflow_checks \in BOOLEAN :
        LET ts == unwrap(reader)
        IN /\ reader' = Some([set_limit(ts, lim) EXCEPT
                                !.limited = TRUE,
                                !.call = [NoCall EXCEPT !.op = "set_limit",
                                                        !.arg = lim]])
           /\ pc' = IF U64Add(ts.inner.pos, lim).overflow /\ overflow_checks
                    THEN "panic" ELSE "take_seek"
    /\ TakeSeekUnchanged

InitTakeSeek == \E p \in 0..MaxStream : TakeSeekStart(p)

NextTakeSeek ==
    TakeSeekCreate \/ TakeSeekRead \/ TakeSeekSeek \/ TakeSeekSetLimit

SpecTakeSeek == InitTakeSeek /\ [][NextTakeSeek]_vars

-----------------------------------------------------------------------------
(* Properties of the boundary recovery, stated over the symbol stream read  *)
(* so far (obj_file.symbols).  Every prefix of a symbol table is itself a   *)
(* symbol table, so an invariant of the symbol loop is a property of every  *)
(* stream up to MaxSymbols symbols.                                         *)

Stream == obj_file.symbols

\* the decode has not failed
Running == pc \in {"symbols", "relocs", "done"}

\* Stream[i] is a file symbol that is not skipped as a precompiled header
IsRetainedFile(i) ==
    /\ SymbolKind(Stream[i], i - 1) = "File"
    /\ ~IsPrecompiledHeader(Stream[i].name)

IsSectionSymbol(i) == SymbolKind(Stream[i], i - 1) = "Section"

\* Stream[i] is a non-file, non-section symbol bound to an absolute value
IsAbsoluteSymbol(i) ==
    /\ SymbolKind(Stream[i], i - 1) \notin {"File", "Section"}
    /\ SymbolSection(Stream[i])[1] = "Absolute"

\* Stream[i] is the FileOrdinal(i)-th retained file symbol
FileOrdinal(i) == Cardinality({j \in 1..i : IsRetainedFile(j)})

\* the boundary state in which Stream[i] is met
StateBefore(i) ==
    RunSymbols(obj_file, kind, section_indexes, SubSeq(Stream, 1, i - 1)).boundary_state

\* Stream[i] is a retained file symbol, Stream[i+1 .. i+n] are section
\* symbols, and then comes a retained file symbol or the end of the stream
FileThenSections(i, n) ==
    /\ i + n <= Len(Stream)
    /\ IsRetainedFile(i)
    /\ \A j \in 1..n : IsSectionSymbol(i + j)
    /\ (i + n = Len(Stream) \/ IsRetainedFile(i + n + 1))

SectionEntry(symbol) == <<symbol.st_value, SectionName(obj_file, symbol.st_shndx)>>

SurvivedFiltering(symbol) == is_some(section_indexes[symbol.st_shndx + 1])

\* the entries (address, section name) of Stream[i+1 .. i+n]
GroupEntries(i, n) == [j \in 1..n |-> SectionEntry(Stream[i + j])]

RECURSIVE RetainedEntries(_)
\* the entries of those symbols of group whose section survived filtering
RetainedEntries(group) ==
    IF group = <<>> THEN <<>>
    ELSE IF SurvivedFiltering(Head(group))
         THEN <<SectionEntry(Head(group))>> \o RetainedEntries(Tail(group))
         ELSE RetainedEntries(Tail(group))

\* C1 as stated: whenever a retained file symbol F is followed, before the
\* next file symbol, by section symbols s1..sn, the split list of F is
\* exactly <<(address(s1), name(s1)), ..., (address(sn), name(sn))>>.
C1_Original ==
    Running =>
        \A i \in 1..Len(Stream) : \A n \in 1..(Len(Stream) - i) :
            FileThenSections(i, n) =>
                section_starts[FileOrdinal(i)].value = GroupEntries(i, n)

\* C1 (amended): if F is met in state LookForSections, or in LookForFile
\* with an empty pending queue, and is followed up to the next retained file
\* symbol (or the end of the stream) by section symbols s1..sn only, then the
\* split list of F is exactly the entries (address(si), name(si)), in stream
\* order, of those si whose section survived the section filter.
C1_FileFirstSplitList ==
    Running =>
        \A i \in 1..Len(Stream) : \A n \in 0..(Len(Stream) - i) :
            ( /\ FileThenSections(i, n)
              /\ \/ StateBefore(i).tag = "LookForSections"
                 \/ StateBefore(i) = LookForFile(<<>>) )
            => section_starts[FileOrdinal(i)].value
                 = RetainedEntries(SubSeq(Stream, i + 1, i + n))

\* C1: a file followed by two section symbols of retained sections has been
\* decoded and both are in its list
C1_Witness ==
    /\ pc = "done"
    /\ \E i \in 1..Len(Stream) :
        /\ FileThenSections(i, 2)
        /\ StateBefore(i) = LookForFile(<<>>)
        /\ SurvivedFiltering(Stream[i + 1]) /\ SurvivedFiltering(Stream[i + 2])
        /\ Len(section_starts[FileOrdinal(i)].value) = 2

\* the stream with the group Stream[i+1 .. i+n] moved in front of Stream[i]
SectionsFirst(i, n) ==
    SubSeq(Stream, 1, i - 1) \o SubSeq(Stream, i + 1, i + n)
        \o <<Stream[i]>> \o SubSeq(Stream, i + n + 1, Len(Stream))

\* the split list of the k-th registered file after the symbol loop has run
\* over syms; <<"failed">> if the loop failed
SplitListAfter(syms, k) ==
    LET st == RunSymbols(obj_file, kind, section_indexes, syms) IN
    IF st.pc = "symbols" /\ k \in 1..Len(st.section_starts)
    THEN st.section_starts[k].value
    ELSE <<"failed">>

\* C2 as stated: for any retained file symbol F directly followed by any
\* group of section symbols, the split list of F is the same as after
\* decoding the stream in which the group precedes F, the rest of the
\* stream being the same.
C2_Original ==
    Running =>
        \A i \in 1..Len(Stream) : \A n \in 1..(Len(Stream) - i) :
            ( /\ IsRetainedFile(i)
              /\ \A j \in 1..n : IsSectionSymbol(i + j) )
            => SplitListAfter(SectionsFirst(i, n), FileOrdinal(i))
                 = section_starts[FileOrdinal(i)].value

\* C2 (amended): if F is met in state LookForFile with an empty pending
\* queue, the group consists of section symbols whose sections all survived
\* the section filter, and the group is directly followed by a retained file
\* symbol, an absolute-bound non-file non-section symbol or the end of the
\* stream, then the split list of F is the same whether the group follows
\* F or precedes it.
C2_OrderIndependent ==
    Running =>
        \A i \in 1..Len(Stream) : \A n \in 1..(Len(Stream) - i) :
            ( /\ IsRetainedFile(i)
              /\ \A j \in 1..n :
                    IsSectionSymbol(i + j) /\ SurvivedFiltering(Stream[i + j])
              /\ StateBefore(i) = LookForFile(<<>>)
              /\ \/ i + n = Len(Stream)
                 \/ IsRetainedFile(i + n + 1)
                 \/ IsAbsoluteSymbol(i + n + 1) )
            => SplitListAfter(SectionsFirst(i, n), FileOrdinal(i))
                 = section_starts[FileOrdinal(i)].value

\* C2: a file-first stream with a group of two retained section symbols has
\* been decoded, and the sections-first stream gives the same two entries
C2_Witness ==
    /\ pc = "done"
    /\ \E i \in 1..Len(Stream) :
        /\ IsRetainedFile(i) /\ i + 2 <= Len(Stream)
        /\ \A j \in 1..2 :
              IsSectionSymbol(i + j) /\ SurvivedFiltering(Stream[i + j])
        /\ StateBefore(i) = LookForFile(<<>>)
        /\ (i + 2 = Len(Stream) \/ IsRetainedFile(i + 3))
        /\ Len(SplitListAfter(SectionsFirst(i, 2), FileOrdinal(i))) = 2
        /\ SplitListAfter(SectionsFirst(i, 2), FileOrdinal(i)) = GroupEntries(i, 2)

\* the names registered before Stream[i] is met
RegisteredBefore(i) ==
    {section_starts[m].key : m \in 1..(FileOrdinal(i) - 1)}

\* how many file symbols up to Stream[i] carry the name of Stream[i] and
\* found it registered already
Repeats(i) ==
    Cardinality({j \in 1..i :
        /\ IsRetainedFile(j)
        /\ Stream[j].name = Stream[i].name
        /\ Stream[j].name \in RegisteredBefore(j)})

\* the name the retained file symbol Stream[i] is to be registered under
ExpectedName(i) ==
    IF Stream[i].name \in RegisteredBefore(i)
    THEN Stream[i].name \o "_" \o ToString(Repeats(i))
    ELSE Stream[i].name

RetainedFiles == {i \in 1..Len(Stream) : IsRetainedFile(i)}

Distinct(seq) == \A a, b \in 1..Len(seq) : seq[a] = seq[b] => a = b

\* the registered names follow the renaming rule and link_order holds one
\* distinct entry per retained file symbol
RenamedAndListed ==
    /\ Running =>
        /\ Len(section_starts) = Cardinality(RetainedFiles)
        /\ \A i \in RetainedFiles :
              section_starts[FileOrdinal(i)].key = ExpectedName(i)
    /\ (pc \in {"relocs", "done"} /\ kind = "Executable") =>
        /\ Distinct(link_order)
        /\ Len(link_order) = Cardinality(RetainedFiles)
        /\ \A i \in RetainedFiles : ExpectedName(i) = link_order[FileOrdinal(i)]

\* C3 as stated: for every sequence of file symbols a repeated name is
\* registered under <name>_<k>, decoding continues (no "Duplicate filename"
\* failure), and link_order holds one distinct entry per occurrence.
C3_Original ==
    /\ error # "Duplicate filename"
    /\ RenamedAndListed

\* C3 (amended): a file symbol whose name is already registered is
\* registered under <name>_<k>, k counting the repeats of that name, unless
\* <name>_<k> is itself already registered: then, and only then, the decode
\* fails with "Duplicate filename".  When the decode goes on, link_order
\* holds one distinct entry for every retained file symbol.
C3_DuplicateFileNames ==
    /\ RenamedAndListed
    /\ error = "Duplicate filename" <=>
        /\ pc = "error"
        /\ IsRetainedFile(Len(Stream))
        /\ Stream[Len(Stream)].name \in RegisteredBefore(Len(Stream))
        /\ ExpectedName(Len(Stream)) \in RegisteredBefore(Len(Stream))

\* C3: a name met three times has been registered as a.c, a.c_1, a.c_2
C3_Witness ==
    /\ pc = "done" /\ kind = "Executable"
    /\ link_order = <<"a.c", "a.c_1", "a.c_2">>
    /\ \A i \in 1..3 : IsRetainedFile(i) /\ Stream[i].name = "a.c"

\* C4: once the boundary state is FilesEnded it stays FilesEnded, and no
\* symbol met afterwards changes a split list or adds anything to
\* link_order or splits.
C4_FilesEndedTerminal ==
    [][(pc = "symbols" /\ boundary_state.tag = "FilesEnded" /\ pc' = "symbols") =>
        /\ boundary_state'.tag = "FilesEnded"
        /\ \A k \in 1..Len(section_starts) : section_starts'[k] = section_starts[k]
        /\ Splits(kind, section_starts') = Splits(kind, section_starts)
        /\ LinkOrder(kind, section_starts') = LinkOrder(kind, section_starts)]_vars

\* what of C4 the code does: FilesEnded is never left, and no split list
\* and no entry of splits changes afterwards
C4_SplitsFrozen ==
    [][(pc = "symbols" /\ boundary_state.tag = "FilesEnded" /\ pc' = "symbols") =>
        /\ boundary_state'.tag = "FilesEnded"
        /\ \A k \in 1..Len(section_starts) : section_starts'[k] = section_starts[k]
        /\ Splits("Executable", section_starts') = Splits("Executable", section_starts)]_vars

\* the raw sections (1-based positions) the relocation loop does not skip
RetainedRaw == {s \in 1..Len(obj_file.sections) : is_some(section_indexes[s])}

\* the normalized section of a retained raw section
Out(s) == sections[unwrap(section_indexes[s]) + 1]

\* the relocation records the loop has reached: <<raw section, position>>
Records ==
    UNION { {<<s, j>> : j \in 1..Len(obj_file.sections[s].relocs)} :
            s \in RetainedRaw }

RawReloc(r) == obj_file.sections[r[1]].relocs[r[2]]

\* the record was translated and pushed: records are pushed in order and the
\* first failure ends the loop
Stored(r) == r[2] <= Len(Out(r[1]).relocations)

StoredReloc(r) == Out(r[1]).relocations[r[2]]

\* the raw symbol a record names, when there is one
HasTarget(r) == RawReloc(r).r_sym < Len(Stream)

Target(r) == Stream[RawReloc(r).r_sym + 1]

TargetKind(r) == SymbolKind(Target(r), RawReloc(r).r_sym)

\* the raw symbols (0-based) that the symbol pass kept
Kept == {i \in 0..Len(Stream) - 1 : i < Len(symbol_indexes) /\ is_some(symbol_indexes[i + 1])}

\* C5: in the Object either decoder builds, every relocation's target_symbol
\* is an index into symbols and every symbol's section, when present, is
\* an index into sections; process_rso builds no relocation.
C5_IndexesValid ==
    /\ \A i \in 1..Len(sections) : \A j \in 1..Len(sections[i].relocations) :
          /\ 0 <= sections[i].relocations[j].target_symbol
          /\ sections[i].relocations[j].target_symbol < Len(symbols)
    /\ \A i \in 1..Len(symbols) : is_some(symbols[i].section) =>
          /\ 0 <= unwrap(symbols[i].section)
          /\ unwrap(symbols[i].section) < Len(sections)
    /\ \A i \in 1..Len(sections) : rso # None => sections[i].relocations = <<>>

\* C5: process_elf returned an Object with a relocation against its last
\* symbol, the table having a stripped entry before it, and a symbol in its
\* last section, a section having been dropped before it
C5_Witness ==
    /\ pc = "done" /\ rso = None
    /\ \E i \in 1..Len(sections) : \E j \in 1..Len(sections[i].relocations) :
          /\ sections[i].relocations[j].target_symbol = Len(symbols) - 1
          /\ Len(symbols) < Len(Stream) - 1
    /\ \E i \in 1..Len(symbols) :
          /\ symbols[i].section = Some(Len(sections) - 1)
          /\ sections[Len(sections)].elf_index > Len(sections)

\* C6: every stored relocation address is a multiple of 4, and it is the
\* record's address rounded down to the enclosing 4-byte word, whatever the
\* relocation kind.
C6_AddressRoundedDown ==
    \A r \in Records : Stored(r) =>
        /\ StoredReloc(r).address % 4 = 0
        /\ StoredReloc(r).address <= RawReloc(r).r_offset
        /\ RawReloc(r).r_offset < StoredReloc(r).address + 4

\* C6: a decode that returned a relocation of a half-word kind whose record
\* address is not a multiple of 4
C6_Witness ==
    /\ pc = "done"
    /\ \E r \in Records :
          /\ Stored(r)
          /\ RawReloc(r).r_offset % 4 # 0
          /\ StoredReloc(r).kind = "PpcAddr16Lo"

\* C8: a record of a retained section whose target is not in the normalized
\* symbol list (the null symbol, a file symbol, a symbol of a dropped
\* section, or an index past the table) makes the decode fail; a stored
\* record names the normalized index given to its raw target, which is the
\* number of raw symbols kept before it and the place of its translation.
C8_StrippedTargetFails ==
    \A r \in Records :
        /\ (~HasTarget(r) \/ RawReloc(r).r_sym \notin Kept) =>
              (pc = "error" /\ ~Stored(r))
        /\ Stored(r) =>
              /\ RawReloc(r).r_sym \in Kept
              /\ StoredReloc(r).target_symbol =
                    unwrap(symbol_indexes[RawReloc(r).r_sym + 1])
              /\ StoredReloc(r).target_symbol =
                    Cardinality({i \in Kept : i < RawReloc(r).r_sym})
              /\ Some(symbols[StoredReloc(r).target_symbol + 1]) =
                    to_obj_symbol(obj_file, Target(r), RawReloc(r).r_sym,
                                  section_indexes)

\* C8: a decode that failed on a record whose target is a skipped
\* precompiled-header file symbol
C8_Witness ==
    /\ pc = "error"
    /\ error = "Relocation against stripped symbol"
    /\ \E r \in Records :
          /\ HasTarget(r)
          /\ Target(r).st_type = "STT_FILE"
          /\ IsPrecompiledHeader(Target(r).name)
          /\ ~Stored(r)

\* the Object process_elf returns
Returned ==
    [kind |-> kind, name |-> obj_name, sections |-> sections, symbols |-> symbols]

\* no local symbol after a symbol that is not local
LocalFirst(syms) ==
    \A i, j \in 1..Len(syms) :
        (i < j /\ "Local" \in syms[j].flags) => "Local" \in syms[i].flags

\* the container written for the returned Object, decoded again
Redecoded ==
    process_elf(write_elf(Returned).file,
                ObjKindOf(write_elf(Returned).file.e_type))

\* C7: a returned Object (its symbols local-first when it is Relocatable) is
\* written without error, the written container decodes, and the decoded
\* Object has the same section contents, the same relocation tuples
\* (address, kind, target_symbol, addend) per section, and index by index
\* symbols of the same address, size, kind and flags.
C7_RoundTrip ==
    (pc = "done" /\ rso = None /\ (kind = "Relocatable" => LocalFirst(symbols))) =>
        /\ write_elf(Returned).ok
        /\ Redecoded.pc = "done"
        /\ Len(Redecoded.sections) = Len(sections)
        /\ \A i \in 1..Len(sections) :
              /\ Redecoded.sections[i].data = sections[i].data
              /\ Redecoded.sections[i].relocations = sections[i].relocations
        /\ Len(Redecoded.symbols) = Len(symbols)
        /\ \A i \in 1..Len(symbols) :
              /\ Redecoded.symbols[i].address = symbols[i].address
              /\ Redecoded.symbols[i].size = symbols[i].size
              /\ Redecoded.symbols[i].kind = symbols[i].kind
              /\ Redecoded.symbols[i].flags = symbols[i].flags

\* the big-endian word at address a of data, unsigned, as [hi, lo]
WordAt(data, a) ==
    [hi |-> data[a + 1] * 256 + data[a + 2], lo |-> data[a + 3] * 256 + data[a + 4]]

\* the record got as far as the addend: known type, target kept
ReachedAddend(r) ==
    /\ RawReloc(r).r_type # "R_PPC_UADDR32"
    /\ HasTarget(r)
    /\ RawReloc(r).r_sym \in Kept

\* C9: against a function, data or unknown-kind target an explicit addend is
\* stored as it is, whatever its sign; against a section target an implicit
\* addend is the unsigned big-endian word at the record's unrounded address,
\* stored only for the Absolute kind and rejected for any other; against a
\* section target a negative explicit addend is rejected; so every stored
\* addend against a section symbol is >= 0.
C9_AddendRecovery ==
    \A r \in Records : ReachedAddend(r) =>
        LET rel == RawReloc(r)
            data == Out(r[1]).data
            inside == rel.r_offset + 4 <= Len(data)
        IN /\ (TargetKind(r) \in {"Text", "Data", "Unknown"} /\ ~rel.implicit) =>
                (Stored(r) /\ StoredReloc(r).addend = rel.r_addend)
           /\ (TargetKind(r) = "Section" /\ rel.implicit) =>
                /\ rel.r_type # "R_PPC_ADDR32" => ~Stored(r) /\ pc \in {"error", "panic"}
                /\ (rel.r_type # "R_PPC_ADDR32" /\ inside) =>
                      error = "Unsupported implicit relocation type"
                /\ (rel.r_type = "R_PPC_ADDR32" /\ inside) =>
                      (Stored(r) /\ StoredReloc(r).addend = WordAt(data, rel.r_offset))
           /\ (TargetKind(r) = "Section" /\ ~rel.implicit) =>
                IF rel.r_addend.hi < 0
                THEN ~Stored(r) /\ error = "Negative addend in section reloc"
                ELSE Stored(r) /\ StoredReloc(r).addend = rel.r_addend
           /\ (TargetKind(r) = "Section" /\ Stored(r)) =>
                StoredReloc(r).addend.hi >= 0

\* C9: a decode that returned a relocation against a section symbol whose
\* implicit addend is a word with the top bit set
C9_Witness ==
    /\ pc = "done"
    /\ \E r \in Records :
          /\ Stored(r)
          /\ TargetKind(r) = "Section"
          /\ RawReloc(r).implicit
          /\ StoredReloc(r).addend.hi >= 32768

\* C10: for the Executable kind link_order is the sequence of registered
\* names (after renaming) in the order of the file symbols that created
\* them, one entry per retained file symbol whether or not a section was
\* attached to it.
C10_LinkOrderIsCreationOrder ==
    (pc \in {"relocs", "done"} /\ kind = "Executable") =>
        /\ Len(link_order) = Cardinality(RetainedFiles)
        /\ \A i \in RetainedFiles : link_order[FileOrdinal(i)] = ExpectedName(i)
        /\ \A i, j \in RetainedFiles :
              i < j => \E a, b \in 1..Len(link_order) :
                          /\ a < b
                          /\ link_order[a] = ExpectedName(i)
                          /\ link_order[b] = ExpectedName(j)

\* C10: two files registered in an order that is not the sorted one, the
\* second without any section attached
C10_Witness ==
    /\ pc = "done" /\ kind = "Executable"
    /\ link_order = <<"a.c_1", "a.c">>
    /\ section_starts[1].value # <<>>
    /\ section_starts[2].value = <<>>

\* the entries of the split list of the k-th registered file at address a
EntriesAt(k, a) ==
    {e \in 1..Len(section_starts[k].value) : section_starts[k].value[e][1] = a}

\* the addresses of the entries of all split lists
SplitAddresses ==
    UNION { {section_starts[k].value[e][1] : e \in 1..Len(section_starts[k].value)} :
            k \in 1..Len(section_starts) }

\* the place of a registered name in link_order
LinkPosition(name) == CHOOSE p \in 1..Len(link_order) : link_order[p] = name

\* C11: for the Executable kind splits has a key a exactly when some split
\* list has an entry at a; the list at a holds the name of each file once
\* per entry of that file at a, in the order of link_order; and every name
\* in splits is in link_order.
C11_SplitsFlattened ==
    (pc \in {"relocs", "done"} /\ kind = "Executable") =>
        /\ DOMAIN splits = SplitAddresses
        /\ \A a \in DOMAIN splits :
              /\ \A k \in 1..Len(section_starts) :
                    Cardinality({p \in 1..Len(splits[a]) :
                                    splits[a][p] = section_starts[k].key})
                        = Cardinality(EntriesAt(k, a))
              /\ \A p \in 1..Len(splits[a]) :
                    \E q \in 1..Len(link_order) : link_order[q] = splits[a][p]
              /\ \A p, q \in 1..Len(splits[a]) :
                    p < q => LinkPosition(splits[a][p]) <= LinkPosition(splits[a][q])

\* C11: two files start at the same address, the one registered first
\* having the greater name, and one of them has two entries there
C11_Witness ==
    /\ pc = "done" /\ kind = "Executable"
    /\ \E a \in DOMAIN splits :
          /\ Len(splits[a]) >= 2
          /\ splits[a][1] = "a.c_1"
          /\ splits[a][Len(splits[a])] = "a.c"

\* C12: a Relocatable container and an RSO module give empty splits and an
\* empty link_order, whatever file and section symbols were read.
C12_EmptyUnlessExecutable ==
    (pc = "done" /\ (kind = "Relocatable" \/ rso # None)) =>
        /\ link_order = <<>>
        /\ splits = <<>>

\* C12: a Relocatable container whose file symbol got a split list entry
C12_Witness ==
    /\ pc = "done" /\ kind = "Relocatable" /\ rso = None
    /\ \E k \in 1..Len(section_starts) : section_starts[k].value # <<>>
    /\ link_order = <<>>

\* C13: every Symbol of an Object returned by process_elf or process_rso
\* has a non-empty name.
C13_NamesNonEmpty ==
    pc = "done" => \A s \in 1..Len(symbols) : symbols[s].name # ""

\* the precompiled-header naming convention
PchConvention(name) ==
    \/ name \in {"Precompiled.cpp", "stdafx.cpp"}
    \/ ends_with(name, ".h")
    \/ starts_with(name, "Pch.")
    \/ \E pat \in {"precompiled_", "Precompiled", ".pch", "_PCH."} :
          contains(name, pat)

\* the step reads a file symbol named by the precompiled-header convention
ReadsPchFileSymbol ==
    /\ pc = "symbols"
    /\ Len(obj_file'.symbols) = Len(obj_file.symbols) + 1
    /\ LET symbol == obj_file'.symbols[Len(obj_file'.symbols)] IN
          /\ SymbolKind(symbol, Len(obj_file.symbols)) = "File"
          /\ PchConvention(symbol.name)

\* C14: a file symbol named by the precompiled-header convention leaves the
\* boundary state (pending queue included), every split list, the registered
\* file names and the unit name unchanged and yields no normalized Symbol.
C14_PchFileSymbolSkipped ==
    [][ReadsPchFileSymbol =>
            /\ boundary_state' = boundary_state
            /\ section_starts' = section_starts
            /\ name_to_index' = name_to_index
            /\ obj_name' = obj_name
            /\ symbols' = symbols
            /\ symbol_indexes' = Append(symbol_indexes, None)
            /\ pc' = "symbols"]_vars

\* C14: the header's file symbol was read while section symbols were pending
C14_Witness ==
    /\ pc = "symbols"
    /\ Stream # <<>>
    /\ SymbolKind(Stream[Len(Stream)], Len(Stream) - 1) = "File"
    /\ PchConvention(Stream[Len(Stream)].name)
    /\ boundary_state.tag = "LookForFile"
    /\ boundary_state.queue # <<>>

-----------------------------------------------------------------------------
(* Properties of write_elf, stated over the Writer's reserved and written   *)
(* regions and over what the write pass has emitted.                        *)

Reserved == unwrap(writer).reserved

Written == unwrap(writer).written

\* C15: for an Object that passes the section-size test, the write pass
\* emits the regions in the order of their reservation, every section's
\* bytes start at the 32-byte-aligned offset reserved for the section, every
\* relocation table starts at its reserved offset, no debug assertion of
\* the layout fails, and at the end as many bytes are written as reserved.
C15_TwoPhaseLayout ==
    writer # None =>
        /\ pc # "panic"
        /\ Len(Written) <= Len(Reserved)
        /\ \A p \in 1..Len(Written) :
              /\ Written[p] = Reserved[p]
              /\ Written[p].region = "section" =>
                    /\ Written[p].offset % 32 = 0
                    /\ Written[p].offset =
                          unwrap(writer).out_sections[Written[p].index].offset
                    /\ sections[Written[p].index].kind # "Bss"
              /\ Written[p].region = "rela" =>
                    Written[p].offset =
                        unwrap(writer).out_sections[Written[p].index].rela_offset
        /\ pc = "done" =>
              /\ Written = Reserved
              /\ unwrap(writer).buffer = unwrap(writer).len
              /\ \A s \in 1..Len(sections) :
                    /\ sections[s].kind # "Bss" =>
                          \E p \in 1..Len(Written) :
                              /\ Written[p].region = "section"
                              /\ Written[p].index = s
                              /\ Written[p].size = Len(sections[s].data)
                    /\ sections[s].relocations # <<>> =>
                          \E p \in 1..Len(Written) :
                              /\ Written[p].region = "rela"
                              /\ Written[p].index = s

\* C15: an Executable was written whose first section ends off the
\* alignment, so that the second one starts after padding, and both have a
\* relocation table
C15_Witness ==
    /\ writer # None /\ pc = "done" /\ kind = "Executable"
    /\ Len(sections) = 2
    /\ Len(sections[1].data) % 32 # 0
    /\ \A s \in 1..2 :
          sections[s].kind # "Bss" /\ sections[s].relocations # <<>>
    /\ \E p \in 1..Len(Written) :
          /\ Written[p].region = "section" /\ Written[p].index = 2
          /\ Written[p].offset > Written[p - 1].offset + Written[p - 1].size

\* the sections of kind Code, Data or ReadOnlyData whose stored byte length
\* differs from their declared size
Mismatched ==
    {s \in 1..Len(sections) :
        /\ sections[s].kind \in {"Code", "Data", "ReadOnlyData"}
        /\ Len(sections[s].data) # sections[s].size}

\* C16: when a Code, Data or ReadOnlyData section has a stored length other
\* than its size, write_elf stops with the error at that section of the
\* reservation loop, before any byte is written, and returns no buffer; a
\* Bss section never causes the error.
C16_SizeCheck ==
    writer # None =>
        /\ Mismatched # {} =>
              /\ pc \in {"write_indexes", "write_file_symbol", "write_symbols",
                          "write_reserve_headers", "write_reserve_sections",
                          "error"}
              /\ unwrap(writer).buffer = 0
              /\ Written = <<>>
              /\ pc = "write_reserve_sections" =>
                    \A s \in Mismatched : unwrap(writer).i < s
        /\ pc = "error" =>
              /\ error = "Mismatched section size"
              /\ Mismatched # {}
        /\ Mismatched = {} => pc # "error"

\* C16: the error was returned for a section that follows a Bss section
\* whose data is shorter than its size
C16_Witness ==
    /\ writer # None /\ pc = "error"
    /\ Len(sections) = 2
    /\ sections[1].kind = "Bss" /\ Len(sections[1].data) # sections[1].size
    /\ Mismatched = {2}
    /\ unwrap(writer).buffer = 0

\* the relocation tables the write pass has emitted
Relas == unwrap(writer).relas

\* the relocation of the Object behind record j of emitted table t
Source(t, j) == sections[Relas[t].section].relocations[j]

\* an address rounded down to a multiple of 4
WordOf(address) == address - (address % 4)

\* C17: a relocation at address A is emitted with offset A and type ADDR32
\* (A a multiple of 4) or UADDR32 (otherwise) for kind Absolute; with offset
\* (A rounded down to 4) + 2 and type ADDR16_HI, ADDR16_HA, ADDR16_LO or
\* EMB_SDA21 for the 16-bit kinds; with offset A rounded down to 4 and type
\* REL24 or REL14 for the branch kinds.
C17_RelocationTranslation ==
    writer # None =>
        \A t \in 1..Len(Relas) :
            /\ Len(Relas[t].records) = Len(sections[Relas[t].section].relocations)
            /\ \A j \in 1..Len(Relas[t].records) :
                  LET A == Source(t, j).address
                      k == Source(t, j).kind
                      r == Relas[t].records[j]
                  IN /\ k = "Absolute" =>
                           /\ r.r_offset = A
                           /\ r.r_type = IF A % 4 = 0 THEN "R_PPC_ADDR32"
                                         ELSE "R_PPC_UADDR32"
                     /\ k = "PpcAddr16Hi" =>
                           r.r_offset = WordOf(A) + 2 /\ r.r_type = "R_PPC_ADDR16_HI"
                     /\ k = "PpcAddr16Ha" =>
                           r.r_offset = WordOf(A) + 2 /\ r.r_type = "R_PPC_ADDR16_HA"
                     /\ k = "PpcAddr16Lo" =>
                           r.r_offset = WordOf(A) + 2 /\ r.r_type = "R_PPC_ADDR16_LO"
                     /\ k = "PpcEmbSda21" =>
                           r.r_offset = WordOf(A) + 2 /\ r.r_type = "R_PPC_EMB_SDA21"
                     /\ k = "PpcRel24" =>
                           r.r_offset = WordOf(A) /\ r.r_type = "R_PPC_REL24"
                     /\ k = "PpcRel14" =>
                           r.r_offset = WordOf(A) /\ r.r_type = "R_PPC_REL14"

\* C17: a PpcAddr16Lo relocation at the aligned address 4 was emitted at 6
C17_Witness ==
    /\ writer # None /\ pc = "done"
    /\ \E t \in 1..Len(Relas) : \E j \in 1..Len(Relas[t].records) :
          /\ Source(t, j).kind = "PpcAddr16Lo"
          /\ Source(t, j).address = 4
          /\ Relas[t].records[j].r_offset = 6

\* the symbol table the write pass has emitted
Symtab == unwrap(writer).symtab

\* C18: every emitted relocation has the symbol index target_symbol + 1,
\* plus 1 more exactly when the unit name is not empty, and the entry of the
\* emitted symbol table at that position is the one written for
\* obj.symbols[target_symbol].
C18_RelocationTargetIndex ==
    (writer # None /\ pc = "done") =>
        \A t \in 1..Len(Relas) : \A j \in 1..Len(Relas[t].records) :
            LET target == Source(t, j).target_symbol
                r_sym == Relas[t].records[j].r_sym
            IN /\ r_sym = target + 1 + (IF obj_name # "" THEN 1 ELSE 0)
               /\ target < Len(symbols) =>
                     /\ r_sym < Len(Symtab)
                     /\ Symtab[r_sym + 1].name = symbols[target + 1].name
                     /\ Symtab[r_sym + 1].st_value = symbols[target + 1].address
                     /\ Len(Symtab) - (r_sym + 1) = Len(symbols) - (target + 1)

\* C18: with a file symbol emitted, a relocation against the second symbol
\* of the Object has the symbol index 3
C18_Witness ==
    /\ writer # None /\ pc = "done" /\ obj_name # ""
    /\ Len(symbols) = 2 /\ symbols[1].name # symbols[2].name
    /\ \E t \in 1..Len(Relas) : \E j \in 1..Len(Relas[t].records) :
          /\ Source(t, j).target_symbol = 1
          /\ Relas[t].records[j].r_sym = 3

\* C19: for an Object whose symbols are ordered local-first, every entry of
\* the emitted symbol table with LOCAL binding precedes every entry with
\* GLOBAL or WEAK binding, with or without a leading file symbol.
C19_LocalsPrecedeGlobals ==
    (writer # None /\ pc = "done" /\ LocalFirst(symbols)) =>
        \A i, j \in 1..Len(Symtab) :
            (i < j /\ Symtab[j].st_bind = "STB_LOCAL") =>
                Symtab[i].st_bind = "STB_LOCAL"

\* the entries of the emitted symbol table with LOCAL binding
LocalEntries == {i \in 1..Len(Symtab) : Symtab[i].st_bind = "STB_LOCAL"}

\* C20: the count in the header of the symbol table is the number of
\* entries up to and including the last one with LOCAL binding, and for a
\* local-first Object it is 1, plus 1 if the file symbol is emitted, plus
\* the number of symbols with LOCAL binding, zero included.
C20_LocalBoundary ==
    (writer # None /\ pc = "done") =>
        /\ \A i \in LocalEntries : unwrap(writer).sh_info >= i
        /\ unwrap(writer).sh_info \in LocalEntries \cup {0}
        /\ LocalEntries # {} => unwrap(writer).sh_info # 0
        /\ LocalFirst(symbols) =>
              unwrap(writer).sh_info =
                  1 + (IF obj_name # "" THEN 1 ELSE 0)
                  + Cardinality({s \in 1..Len(symbols) :
                                    StBind(symbols[s]) = "STB_LOCAL"})

\* the entry of the emitted symbol table written for symbols[s]
Entry(s) == Symtab[1 + (IF obj_name # "" THEN 1 ELSE 0) + s]

\* symbols[s] has an owning section among the sections of the Object
Owned(s) ==
    /\ symbols[s].section # None
    /\ unwrap(symbols[s].section) < Len(sections)

\* C21: each Symbol is emitted with binding WEAK if it has the Weak
\* attribute, else LOCAL if it has the Local attribute, else GLOBAL; with
\* type FUNC, OBJECT, SECTION or NOTYPE by kind, COMMON for an Object-kind
\* symbol with the Common attribute; with visibility HIDDEN iff it has the
\* Hidden attribute; and with the reserved index of its owning section, else
\* the absolute marker if its address is not zero, else undefined.
C21_SymbolEncoding ==
    (writer # None /\ pc = "done") =>
        \A s \in 1..Len(symbols) :
            LET sym == symbols[s]
                e == Entry(s)
            IN /\ e.name = sym.name
               /\ e.st_value = sym.address /\ e.st_size = sym.size
               /\ e.st_bind = "STB_WEAK" <=> "Weak" \in sym.flags
               /\ e.st_bind = "STB_LOCAL" <=>
                     ("Local" \in sym.flags /\ "Weak" \notin sym.flags)
               /\ e.st_bind = "STB_GLOBAL" <=>
                     ("Local" \notin sym.flags /\ "Weak" \notin sym.flags)
               /\ sym.kind = "Function" => e.st_type = "STT_FUNC"
               /\ sym.kind = "Section" => e.st_type = "STT_SECTION"
               /\ sym.kind = "Unknown" => e.st_type = "STT_NOTYPE"
               /\ sym.kind = "Object" =>
                     e.st_type = IF "Common" \in sym.flags THEN "STT_COMMON"
                                 ELSE "STT_OBJECT"
               /\ e.st_other = "STV_HIDDEN" <=> "Hidden" \in sym.flags
               /\ e.st_other \in {"STV_HIDDEN", "STV_DEFAULT"}
               /\ Owned(s) =>
                     e.st_shndx =
                        unwrap(writer).out_sections[unwrap(sym.section) + 1].index
               /\ (~Owned(s) /\ sym.address # 0) => e.st_shndx = SHN_ABS
               /\ (~Owned(s) /\ sym.address = 0) => e.st_shndx = SHN_UNDEF

\* C21: a symbol with the Weak and Local attributes in the first section
\* and a hidden absolute one were emitted after the file symbol
C21_Witness ==
    /\ writer # None /\ pc = "done" /\ obj_name # ""
    /\ \E s, t \in 1..Len(symbols) :
          /\ {"Weak", "Local"} \subseteq symbols[s].flags
          /\ Owned(s) /\ Entry(s).st_shndx = 1
          /\ "Hidden" \in symbols[t].flags /\ ~Owned(t)
          /\ Entry(t).st_shndx = SHN_ABS

\* the sections with at least one Relocation
WithRelocations == {s \in 1..Len(sections) : sections[s].relocations # <<>>}

\* the sections a region of the given name stands for in a list of regions
RegionsOf(list, name) ==
    {list[p].index : p \in {q \in 1..Len(list) : list[q].region = name}}

\* C22: the sections with a reserved ".rela<name>" name and index, those
\* with a reserved and written relocation table, and those with a written
\* relocation-section header are exactly the sections with at least one
\* Relocation; each header refers to the owning section's index and to the
\* symbol table and declares the relocation count of its section.
C22_CompanionSections ==
    (writer # None /\ pc = "done") =>
        LET w == unwrap(writer) IN
        /\ \A s \in 1..Len(sections) :
              /\ w.out_sections[s].rela_name # None <=> s \in WithRelocations
              /\ w.out_sections[s].rela_index # None <=> s \in WithRelocations
              /\ s \in WithRelocations =>
                    /\ unwrap(w.out_sections[s].rela_name)
                          = ".rela" \o sections[s].name
                    /\ unwrap(w.out_sections[s].rela_name) \in w.shstrtab
                    /\ unwrap(w.out_sections[s].rela_index) > Len(sections)
                    /\ unwrap(w.out_sections[s].rela_index) < w.symtab_index
        /\ RegionsOf(Reserved, "rela") = WithRelocations
        /\ RegionsOf(Written, "rela") = WithRelocations
        /\ Len(w.rela_headers) = Cardinality(WithRelocations)
        /\ \A s \in WithRelocations :
              \E h \in 1..Len(w.rela_headers) :
                  /\ w.rela_headers[h].sh_name = ".rela" \o sections[s].name
                  /\ w.rela_headers[h].sh_info = w.out_sections[s].index
                  /\ w.rela_headers[h].sh_info = s
                  /\ w.rela_headers[h].sh_link = w.symtab_index
                  /\ w.rela_headers[h].count = Len(sections[s].relocations)
                  /\ w.rela_headers[h].sh_offset = w.out_sections[s].rela_offset
        /\ w.section_num = 1 + Len(sections) + Cardinality(WithRelocations) + 3

\* C22: of two sections the second one alone has relocations
C22_Witness ==
    /\ writer # None /\ pc = "done"
    /\ WithRelocations = {2}
    /\ sections[1].kind # "Bss"
    /\ Len(unwrap(writer).rela_headers) = 1

-----------------------------------------------------------------------------
(* Properties of process_rso, stated over the header and the table entries  *)
(* read so far.                                                             *)

Header == unwrap(rso).header

\* the section-table entries read so far
Infos == unwrap(rso).section_info

\* a table entry of an implicit region: a size, and no offset once the flag
\* bits are masked off
Implicit(info) == info.size # U32(0) /\ info.offset \div 4 = 0

\* the sum of the sizes of the first n entries that are implicit, in units
\* of 65536 (hi) and of 1 (lo), not reduced to 32 bits
RECURSIVE ImplicitSum(_, _)
ImplicitSum(infos, n) ==
    IF n = 0 THEN [hi |-> 0, lo |-> 0]
    ELSE LET rest == ImplicitSum(infos, n - 1)
             lo == rest.lo + (IF Implicit(infos[n]) THEN infos[n].size.lo ELSE 0)
             hi == rest.hi + (IF Implicit(infos[n]) THEN infos[n].size.hi ELSE 0)
         IN [hi |-> hi + (lo \div 65536), lo |-> lo % 65536]

\* C23: a module is rejected when a link-list pointer is not zero, when its
\* version is not 1, or when the sizes of its implicit section-table entries
\* do not add up to the declared bss size, always by an error; a module that
\* gets past the section table, and so an accepted one, meets all three
\* conditions.
C23_HeaderValidation ==
    rso # None =>
        /\ (Header.next # 0 \/ Header.prev # 0 \/ Header.version # 1) =>
              /\ pc \in {"rso_header", "error"}
              /\ sections = <<>> /\ symbols = <<>>
        /\ pc \in {"rso_exports", "done"} =>
              /\ Header.next = 0 /\ Header.prev = 0 /\ Header.version = 1
              /\ ImplicitSum(Infos, Len(Infos)) = U32(Header.bss_size)
        /\ (pc = "error" /\ error = "Mismatched BSS size") =>
              ImplicitSum(Infos, Len(Infos)) # U32(Header.bss_size)
        /\ pc # "panic"

\* the table entry behind the retained section at position i of sections
InfoOf(i) == Infos[sections[i].elf_index + 1]

\* an offset field with bit 0 cleared
ClearBit0(offset) == offset - (offset % 2)

\* the bytes of the file from position offset on, n of them
FileBytes(offset, n) == [k \in 1..n |-> (offset + k - 1) % 256]

\* C24: for every table entry with a size, the offset stored as the file
\* offset of the section, and used to read its bytes, is the offset field
\* with bit 0 and no other bit cleared; the section is Code exactly when bit
\* 0 is set and the cleared offset is not 0.
C24_ExecutableFlag ==
    rso # None =>
        \A i \in 1..Len(sections) :
            /\ sections[i].file_offset = ClearBit0(InfoOf(i).offset)
            /\ sections[i].data # <<>> =>
                  sections[i].data
                      = FileBytes(ClearBit0(InfoOf(i).offset),
                                  Len(sections[i].data))
            /\ sections[i].kind = "Code" <=>
                  /\ InfoOf(i).offset % 2 = 1
                  /\ ClearBit0(InfoOf(i).offset) # 0

\* the table positions (from 1) of the entries with a size
Sized == {n \in 1..Len(Infos) : Infos[n].size # U32(0)}

\* the offset of a table entry as the decoder masks it
Masked(info) == 4 * (info.offset \div 4)

Designated ==
    << [name |-> "_prolog", section |-> Header.prolog_section,
        offset |-> Header.prolog_offset],
       [name |-> "_epilog", section |-> Header.epilog_section,
        offset |-> Header.epilog_offset],
       [name |-> "_unresolved", section |-> Header.unresolved_section,
        offset |-> Header.unresolved_offset] >>

\* the designations with a nonzero section index
EntryPoints == SelectSeq(Designated, LAMBDA d : d.section # 0)

\* C26: once the entry points are handled, the symbol list starts with one
\* Function symbol with the Global attribute per nonzero designation, in the
\* order _prolog, _epilog, _unresolved, at the designated offset and owned
\* by the section whose table position is the designated index; none is
\* made for a zero designation, and the export-table symbols follow.
C26_EntryPointSymbols ==
    (rso # None /\ pc \in {"rso_exports", "done"}) =>
        /\ Len(symbols) = Len(EntryPoints) + Len(unwrap(rso).exports)
        /\ \A k \in 1..Len(EntryPoints) :
              /\ symbols[k].name = EntryPoints[k].name
              /\ symbols[k].kind = "Function"
              /\ "Global" \in symbols[k].flags
              /\ symbols[k].address = EntryPoints[k].offset
              /\ is_some(symbols[k].section)
              /\ unwrap(symbols[k].section) + 1 \in 1..Len(sections)
              /\ sections[unwrap(symbols[k].section) + 1].elf_index
                    = EntryPoints[k].section
        /\ \A k \in 1..Len(unwrap(rso).exports) :
              /\ symbols[Len(EntryPoints) + k].name = unwrap(rso).exports[k].name
              /\ symbols[Len(EntryPoints) + k].kind # "Function"

\* C26: _prolog and _epilog designate the second table entry, which is the
\* first section of the list, _unresolved designates none, and an export
\* follows them
C26_Witness ==
    /\ rso # None /\ pc = "done"
    /\ Header.prolog_section = 1 /\ Header.epilog_section = 1
    /\ Header.unresolved_section = 0
    /\ Len(sections) = 1 /\ sections[1].elf_index = 1
    /\ Len(symbols) = 3
    /\ symbols[1].name = "_prolog" /\ symbols[1].section = Some(0)
    /\ symbols[2].name = "_epilog"
    /\ symbols[3].name = "g"

-----------------------------------------------------------------------------
(* Properties of symbol_hash *)

\* the ELF symbol hash on 32-bit words: h = (h << 4) + c; g = h & 0xF0000000;
\* if g != 0 then h ^= g >> 24; h &= ~g
RECURSIVE ElfHash(_)
ElfHash(s) ==
    IF s = <<>> THEN U32(0)
    ELSE LET h0 == ElfHash(SubSeq(s, 1, Len(s) - 1))
             h1 == U32Add(Shl4(h0), U32(s[Len(s)])).value
             g == h1.hi \div 4096
             h2 == IF g # 0 THEN [h1 EXCEPT !.lo = Xor(@, 16 * g)] ELSE h1
         IN [h2 EXCEPT !.hi = @ % 4096]

\* C27: symbol_hash returns, for every name, the ELF symbol hash of its
\* bytes on 32-bit words: 0 for the empty name and 0x737FE for "main".
C27_SymbolHash ==
    (hash # None /\ pc # "hash") =>
        /\ pc = "done"
        /\ unwrap(hash).value = ElfHash(unwrap(hash).s)
        /\ unwrap(hash).s = <<>> => unwrap(hash).value = U32(0)
        /\ unwrap(hash).s = Main => unwrap(hash).value = U32(473086)

-----------------------------------------------------------------------------
(* Properties of the failures *)

\* C28: a decode or an encode that fails ends in an Err with its message:
\* no symbol record, relocation record or section reference makes it end in
\* a panic on an index or a slice out of range.
C28_FailuresAreErrors ==
    hash = None =>
        /\ pc # "panic"
        /\ pc = "error" => error # ""

-----------------------------------------------------------------------------
(* Properties of TakeSeek *)

Adapter == unwrap(reader)

\* C29: for a TakeSeek made by take_seek(limit) at the inner position p,
\* after any reads and seeks and no set_limit, limit() is at most the limit
\* of the construction, and a read returns no byte of an inner position at
\* or past p + limit.
C29_TakeSeekLimit ==
    (reader # None /\ pc = "take_seek" /\ ~Adapter.limited) =>
        /\ ~U64Less(Adapter.created.limit, limit(Adapter))
        /\ (Adapter.call.op = "read" /\ Adapter.call.n > 0
                /\ Adapter.created.limit >= 0) =>
              Adapter.call.from + Adapter.call.n
                 <= Adapter.created.pos + Adapter.created.limit

\* C30: after any reads and seeks, set_limit(L) leaves the position and the
\* end that take_seek(L) gives on the inner reader where it stands,
\* whatever was read and whatever the limit was before.
C30_SetLimitIsTakeSeek ==
    (reader # None /\ pc = "take_seek" /\ Adapter.call.op = "set_limit") =>
        /\ Adapter.pos = take_seek(Adapter.inner, Adapter.call.arg).pos
        /\ Adapter.end = take_seek(Adapter.inner, Adapter.call.arg).end
        /\ limit(Adapter) = limit(take_seek(Adapter.inner, Adapter.call.arg))

\* C30: an adapter made at position 1 with limit 1 was read and sought to
\* position 2, and set_limit(2) was called
C30_Witness ==
    /\ reader # None /\ pc = "take_seek"
    /\ Adapter.call.op = "set_limit" /\ Adapter.call.arg = 2
    /\ Adapter.created = [pos |-> 1, limit |-> 1]
    /\ Adapter.inner.pos = 2
    /\ Adapter.pos = 2 /\ Adapter.end = 4

-----------------------------------------------------------------------------
(* Properties of the steps of the boundary recovery *)

\* the step reads a symbol and the decode goes on
ReadsSymbol ==
    /\ pc = "symbols" /\ pc' = "symbols"
    /\ Len(obj_file'.symbols) = Len(obj_file.symbols) + 1

\* the symbol the step reads
Read == obj_file'.symbols[Len(obj_file'.symbols)]

\* the step reads a retained file symbol in state LookForFile
ReadsFileLookingForFile ==
    /\ ReadsSymbol
    /\ SymbolKind(Read, Len(obj_file.symbols)) = "File"
    /\ ~IsPrecompiledHeader(Read.name)
    /\ boundary_state.tag = "LookForFile"

\* the file the step registers: the last key of section_starts
Registered == section_starts'[Len(section_starts')]

\* C31: a retained file symbol met in LookForFile is registered under a new
\* name; with a non-empty pending queue its split list becomes the queued
\* entries in order, the queue becomes empty and the state stays
\* LookForFile; with an empty queue its list is empty and the state becomes
\* LookForSections of the name it is registered under.
C31_LookForFileOnFile ==
    [][ReadsFileLookingForFile =>
            /\ Len(section_starts') = Len(section_starts) + 1
            /\ SubSeq(section_starts', 1, Len(section_starts)) = section_starts
            /\ ~contains_key(section_starts, Registered.key)
            /\ Registered.key = Read.name
                  \/ starts_with(Registered.key, Read.name \o "_")
            /\ Registered.value = boundary_state.queue
            /\ boundary_state.queue # <<>> => boundary_state' = LookForFile(<<>>)
            /\ boundary_state.queue = <<>> =>
                  boundary_state' = LookForSections(Registered.key)]_vars

\* C31: two section symbols were pending when a file symbol was read, and
\* the file has both in its list
C31_Witness ==
    /\ pc = "symbols"
    /\ Len(Stream) = 3
    /\ IsSectionSymbol(1) /\ IsSectionSymbol(2) /\ IsRetainedFile(3)
    /\ StateBefore(3).tag = "LookForFile"
    /\ Len(StateBefore(3).queue) = 2
    /\ boundary_state = LookForFile(<<>>)
    /\ section_starts[1].value = StateBefore(3).queue

\* the step reads a non-file, non-section symbol of a section of the table
\* in state LookForSections
ReadsDefinedLookingForSections ==
    /\ ReadsSymbol
    /\ SymbolKind(Read, Len(obj_file.symbols)) \notin {"File", "Section"}
    /\ SymbolSection(Read)[1] = "Section"
    /\ boundary_state.tag = "LookForSections"

\* the split list of the current file before and after the step
CurrentList == get(section_starts, boundary_state.file_name)
CurrentListAfter == get(section_starts', boundary_state.file_name)

\* position i of the current list is a placeholder for the section of Read
Placeholder(i) ==
    /\ CurrentList[i][1] = 0
    /\ CurrentList[i][2] = SectionName(obj_file, Read.st_shndx)

\* the split list of the file at position f of section_starts after the
\* first i symbols of the stream, <<>> while the file is not registered
ListAfter(i, f) ==
    LET starts == RunSymbols(obj_file, kind, section_indexes,
                             SubSeq(Stream, 1, i)).section_starts
    IN IF f <= Len(starts) THEN starts[f].value ELSE <<>>

\* entry k of the list of file f was appended by the fallback
CreatedByFallback(f, k) ==
    \E i \in 1..Len(Stream) :
        /\ SymbolKind(Stream[i], i - 1) \notin {"File", "Section"}
        /\ Len(ListAfter(i - 1, f)) = k - 1
        /\ Len(ListAfter(i, f)) = k

\* the fallback step changes the current list in one of three ways
FallbackStep ==
    [][ReadsDefinedLookingForSections =>
            /\ boundary_state' = boundary_state
            /\ \A f \in 1..Len(section_starts) :
                  section_starts[f].key # boundary_state.file_name =>
                      section_starts'[f] = section_starts[f]
            /\ Len(section_starts') = Len(section_starts)
            /\ IF ~SurvivedFiltering(Read)
               THEN CurrentListAfter = CurrentList
               ELSE IF \E i \in 1..Len(CurrentList) : Placeholder(i)
               THEN /\ Len(CurrentListAfter) = Len(CurrentList)
                    /\ \A i \in 1..Len(CurrentList) :
                          CurrentListAfter[i] =
                              IF Placeholder(i)
                                 /\ \A j \in 1..(i - 1) : ~Placeholder(j)
                              THEN <<Read.st_value, CurrentList[i][2]>>
                              ELSE CurrentList[i]
               ELSE IF \A i \in 1..Len(CurrentList) :
                          CurrentList[i][2] # SectionName(obj_file, Read.st_shndx)
               THEN CurrentListAfter
                        = Append(CurrentList,
                                 <<Read.st_value,
                                   SectionName(obj_file, Read.st_shndx)>>)
               ELSE CurrentListAfter = CurrentList]_vars

\* no list holds two entries of one section name appended by the fallback
FallbackEntriesDistinct ==
    Running =>
        \A f \in 1..Len(section_starts) :
            \A k1, k2 \in 1..Len(section_starts[f].value) :
                ( /\ k1 < k2
                  /\ CreatedByFallback(f, k1) /\ CreatedByFallback(f, k2) )
                => section_starts[f].value[k1][2] # section_starts[f].value[k2][2]

\* C32: in LookForSections a non-file, non-section symbol whose section
\* survived filtering gives its address to the first entry of its section
\* name with address 0 in the current file's list, or else is appended as
\* (address, section name) if the list has no entry of that name, or else
\* leaves the list as it is; a symbol of a dropped section changes nothing;
\* and no list ever holds two entries of one section name appended this way.
C32_SectionsFallback == FallbackStep /\ []FallbackEntriesDistinct

\* C32: after a file symbol and two placeholder section symbols of .text, a
\* function of .text was read: the first placeholder has its address
C32_Witness ==
    /\ pc = "symbols"
    /\ Len(Stream) = 4
    /\ IsRetainedFile(1) /\ IsSectionSymbol(2) /\ IsSectionSymbol(3)
    /\ SymbolKind(Stream[4], 3) = "Text"
    /\ ListAfter(3, 1) = << <<0, ".text">>, <<0, ".text">> >>
    /\ section_starts[1].value = << <<20, ".text">>, <<0, ".text">> >>

-----------------------------------------------------------------------------
(* The fate of the pending queue *)

\* the boundary state after Stream[i]
StateAfter(i) ==
    RunSymbols(obj_file, kind, section_indexes, SubSeq(Stream, 1, i)).boundary_state

\* the number of entries in the split lists of the first n files
RECURSIVE TotalEntries(_)
TotalEntries(n) ==
    IF n = 0 THEN 0 ELSE Len(section_starts[n].value) + TotalEntries(n - 1)

\* the number of names in splits at the addresses of A
RECURSIVE TotalSplits(_)
TotalSplits(A) ==
    IF A = {} THEN 0
    ELSE LET a == CHOOSE a \in A : TRUE
         IN Len(splits[a]) + TotalSplits(A \ {a})

\* the section symbols among the first i symbols of the stream
SectionSymbolsUpTo(i) == {j \in 1..i : IsSectionSymbol(j)}

\* C33: a queue pending at a retained file symbol met in LookForFile is the
\* list of that file for good; an absolute non-file, non-section symbol
\* makes the state FilesEnded from any state, and if a queue was pending the
\* split lists stay what they were before it; while the state is
\* LookForFile every section symbol read is in one list or pending; and the
\* entries pending at the end of the stream are in no list, splits holding
\* one name per entry of the lists.
C33_QueuedSections ==
    Running =>
        /\ \A i \in 1..Len(Stream) :
              ( /\ IsRetainedFile(i)
                /\ StateBefore(i).tag = "LookForFile"
                /\ StateBefore(i).queue # <<>> )
              => section_starts[FileOrdinal(i)].value = StateBefore(i).queue
        /\ \A i \in 1..Len(Stream) :
              IsAbsoluteSymbol(i) =>
                  /\ StateAfter(i) = FilesEnded
                  /\ boundary_state = FilesEnded
                  /\ ( /\ StateBefore(i).tag = "LookForFile"
                       /\ StateBefore(i).queue # <<>> )
                     => /\ \A f \in 1..Len(section_starts) :
                              section_starts[f].value = ListAfter(i - 1, f)
                        /\ TotalEntries(Len(section_starts))
                              = Cardinality(SectionSymbolsUpTo(i - 1))
                                  - Len(StateBefore(i).queue)
        /\ boundary_state.tag = "LookForFile" =>
              TotalEntries(Len(section_starts)) + Len(boundary_state.queue)
                  = Cardinality(SectionSymbolsUpTo(Len(Stream)))
        /\ pc \in {"relocs", "done"} =>
              TotalSplits(DOMAIN splits)
                  = IF kind = "Executable"
                    THEN TotalEntries(Len(section_starts)) ELSE 0

\* C33: a section symbol was attached to a file, a second one was pending
\* when an absolute symbol ended the files, and the Object holds the first
\* entry only
C33_Witness ==
    /\ pc = "done" /\ kind = "Executable"
    /\ Len(Stream) = 4
    /\ IsSectionSymbol(1) /\ IsRetainedFile(2) /\ IsSectionSymbol(3)
    /\ IsAbsoluteSymbol(4)
    /\ StateBefore(4).tag = "LookForFile" /\ Len(StateBefore(4).queue) = 1
    /\ Len(section_starts) = 1
    /\ section_starts[1].value = StateBefore(2).queue
    /\ TotalSplits(DOMAIN splits) = 1

-----------------------------------------------------------------------------
(* The arithmetic of symbol_hash *)

\* the accumulator of the fold after the first k bytes of the name hashed
HashAfter(k) == symbol_hash(SubSeq(unwrap(hash).s, 1, k)).value

\* C34: at every step of the fold the accumulator is below 2^28 and
\* (hash << 4) + byte is at most 2^32 - 1: no addition overflows.
C34_HashArithmetic ==
    (hash # None /\ pc # "hash") =>
        /\ \A k \in 0..Len(unwrap(hash).s) : HashAfter(k).hi < 4096
        /\ \A k \in 1..Len(unwrap(hash).s) :
              ~HashByte(HashAfter(k - 1), unwrap(hash).s[k]).overflow

-----------------------------------------------------------------------------
(* The order of the section headers *)

\* the header written at the position of a reserved index
HeaderAt(index) == unwrap(writer).section_headers[index + 1]

\* C35: the section headers are written in the order of the reserved
\* indexes: the null header, one per Section in list order, one per Section
\* with relocations in list order, then .symtab, .shstrtab and .strtab; so
\* the header at the index stored for a symbol's section is that of the
\* section, the header at the index a relocation section names is that of
\* its owner, and the header at its link is that of the symbol table.
C35_SectionHeaderOrder ==
    (writer # None /\ pc = "done") =>
        LET w == unwrap(writer) IN
        /\ Len(w.section_headers) = w.section_num
        /\ HeaderAt(0).sh_type = "SHT_NULL"
        /\ \A s \in 1..Len(sections) :
              /\ w.out_sections[s].index = s
              /\ HeaderAt(w.out_sections[s].index).sh_name = sections[s].name
              /\ HeaderAt(w.out_sections[s].index).sh_type
                    \in {"SHT_PROGBITS", "SHT_NOBITS"}
              /\ HeaderAt(w.out_sections[s].index).sh_offset
                    = w.out_sections[s].offset
        /\ \A s \in WithRelocations :
              LET h == HeaderAt(unwrap(w.out_sections[s].rela_index)) IN
              /\ unwrap(w.out_sections[s].rela_index)
                    = Len(sections)
                        + Cardinality({t \in WithRelocations : t <= s})
              /\ h.sh_type = "SHT_RELA"
              /\ h.sh_name = ".rela" \o sections[s].name
              /\ h.sh_offset = w.out_sections[s].rela_offset
              /\ HeaderAt(h.sh_info).sh_name = sections[s].name
              /\ HeaderAt(h.sh_info).sh_offset = w.out_sections[s].offset
              /\ HeaderAt(h.sh_link).sh_type = "SHT_SYMTAB"
        /\ w.symtab_index = Len(sections) + Cardinality(WithRelocations) + 1
        /\ HeaderAt(w.symtab_index).sh_name = ".symtab"
        /\ HeaderAt(w.symtab_index + 1).sh_name = ".shstrtab"
        /\ HeaderAt(w.symtab_index + 2).sh_name = ".strtab"
        /\ HeaderAt(HeaderAt(w.symtab_index).sh_link).sh_name = ".strtab"
        /\ \A s \in 1..Len(symbols) :
              Owned(s) =>
                  LET owner == sections[unwrap(symbols[s].section) + 1] IN
                  /\ HeaderAt(Entry(s).st_shndx).sh_name = owner.name
                  /\ HeaderAt(Entry(s).st_shndx).sh_offset
                        = w.out_sections[unwrap(symbols[s].section) + 1].offset

\* C35: the second of two sections has relocations and a symbol is owned
\* by the first: seven headers are written, the fourth that of the
\* relocation section
C35_Witness ==
    /\ writer # None /\ pc = "done"
    /\ Len(sections) = 2
    /\ WithRelocations = {2}
    /\ \E s \in 1..Len(symbols) : Owned(s) /\ Entry(s).st_shndx = 1
    /\ Len(unwrap(writer).section_headers) = 7
    /\ HeaderAt(3).sh_type = "SHT_RELA" /\ HeaderAt(3).sh_info = 2
    /\ HeaderAt(3).sh_link = 4

====
